---------------------------- MODULE Spec2Model ----------------------------
(***************************************************************************)
(* Fleet-maintenance backend (gpx-api): vehicles with their embedded       *)
(* manutencaoInfo snapshot, the maintenance / checklist / fueling / fine   *)
(* collections, the Due-Date engine, the fuel analysis and the expense     *)
(* report.  Handlers are modelled from src/unnamed/part_002, the latest    *)
(* full revision of the server.                                            *)
(*                                                                         *)
(* Instants are integers counted in ticks, TicksPerDay ticks to a UTC day; *)
(* a tick that is a multiple of TicksPerDay is a UTC midnight.  Money and  *)
(* liters are integers (cents, deciliters).  Null models a stored null,    *)
(* NaN the result of parseInt / parseFloat on a non-numeric value.         *)
(***************************************************************************)
EXTENDS Integers, Sequences, FiniteSets, TLC

VARIABLES
    veiculos,        \* collection 'veiculos', in insertion (natural) order
    manutencoes,     \* collection 'manutencoes'
    checklists,      \* collection 'checklists'
    abastecimentos,  \* collection 'abastecimentos'
    multas,          \* collection 'multas'
    nextId,          \* next ObjectId the store hands out (never reused)
    now,             \* the instant new Date() returns
    resp,            \* the response to the last request handled
    excluidos,       \* history: the vehicles DELETE answered 200 for, each with the
                     \* number of event documents its cascade removed
    emCurso          \* the requests whose handler is suspended at an await, by slot

vars == <<veiculos, manutencoes, checklists, abastecimentos, multas,
          nextId, now, resp, excluidos, emCurso>>

store == <<veiculos, manutencoes, checklists, abastecimentos, multas>>

---------------------------------------------------------------------------
(* Bounds of the model *)

MaxIds == 3          \* ObjectIds the store hands out in one behaviour
MaxKm == 2           \* largest odometer value a request carries
MaxNow == 1          \* ticks the clock advances; dates of drawn fueling events
TicksPerDay == 2     \* granularity of an instant inside a day
MaxPedidos == 2      \* requests in flight at once
MaxReq == 2          \* consecutive runs of one Due-Date engine route

Null == -1
NaN == -2
\* a stored null in a field that otherwise holds text
NullTxt == "<null>"

---------------------------------------------------------------------------
(* JSON values of a request body or query string.  A number n, a non-empty *)
(* numeric (or ISO date) string n, the empty string, null, or absent.      *)

Undef == [k |-> "undefined", n |-> 0]
JNull == [k |-> "null", n |-> 0]
Vazio == [k |-> "empty", n |-> 0]
Num(x) == [k |-> "num", n |-> x]
Str(x) == [k |-> "str", n |-> x]

\* JS truthiness: 0, '', null and undefined are falsy; any non-empty string
\* (also "0") is truthy.
Truthy(v) == (v.k = "num" /\ v.n # 0) \/ v.k = "str"

\* v !== undefined && v !== null && v !== ''
Presente(v) == v.k \in {"num", "str"}

\* parseInt(v, 10) / parseFloat(v) / Date.parse(v) of a numeric value or string.
ParseNum(v) == IF Presente(v) THEN v.n ELSE NaN

\* a || 0 on a stored number
OuZero(x) == IF x = Null \/ x = NaN \/ x = 0 THEN 0 ELSE x

\* JS relational operators on stored numbers: null converts to 0, any
\* comparison with NaN is false.
ToNumber(x) == IF x = Null THEN 0 ELSE x
JsLt(a, b) == a # NaN /\ b # NaN /\ ToNumber(a) < ToNumber(b)
JsGt(a, b) == a # NaN /\ b # NaN /\ ToNumber(a) > ToNumber(b)
JsGe(a, b) == a # NaN /\ b # NaN /\ ToNumber(a) >= ToNumber(b)

\* truthiness of a stored number (null, NaN and 0 are falsy)
TruthyNum(x) == x # Null /\ x # NaN /\ x # 0

---------------------------------------------------------------------------
(* The document store *)

Ids == 1..MaxIds

Existe(col, id) == \E i \in DOMAIN col : col[i]._id = id

\* findOne({_id: id})
FindOne(col, id) == col[CHOOSE i \in DOMAIN col : col[i]._id = id]

\* updateOne({_id: id}, {$set: ...}) with the new document given by f
UpdateOne(col, id, novo) ==
    [i \in DOMAIN col |-> IF col[i]._id = id THEN novo ELSE col[i]]

\* deleteOne({_id: id})
DeleteOne(col, id) == SelectSeq(col, LAMBDA d : d._id # id)

\* deleteMany({veiculoId: vid})
DeleteManyVeiculo(col, vid) == SelectSeq(col, LAMBDA d : d.veiculoId # vid)

\* find({veiculoId: vid})
FindPorVeiculo(col, vid) == SelectSeq(col, LAMBDA d : d.veiculoId = vid)

---------------------------------------------------------------------------
(* Plates.  A plate is a sequence of characters; the handlers store it     *)
(* upper-cased with every character outside A-Z0-9 removed.                *)

ToUpperChar(c) == IF c = "a" THEN "A" ELSE IF c = "b" THEN "B" ELSE c

AlfaNum(c) == c \in {"A", "B", "1", "2"}

\* s.toUpperCase().replace(/[^A-Z0-9]/g, '')
NormalizaPlaca(s) ==
    SelectSeq([i \in DOMAIN s |-> ToUpperChar(s[i])], AlfaNum)

---------------------------------------------------------------------------
(* Requests and responses *)

\* An id of 0 stands for a string that ObjectId.isValid rejects (or a
\* missing id); every other id is well-formed, stored or not.
IdInvalido == 0

IdValido(id) == id # IdInvalido

\* the response the caller sees: the route it called, the HTTP status, the
\* body, how many times in a row the route has answered, and the instant
Resposta(op, status) ==
    [op |-> op, status |-> status, body |-> <<>>, n |-> 0, em |-> now]

\* p(v, t) of POST /api/veiculos: the parsed value, or null when not given
PNull(v) == IF Presente(v) THEN v.n ELSE Null

\* Date + n days (Date.setDate(getDate() + n)); an Invalid Date stays one
MaisDias(t, n) == IF t = NaN THEN NaN ELSE t + n * TicksPerDay

\* a Date as the store keeps it: the driver writes an Invalid Date as the
\* epoch
InstanteGravado(t) == IF t = NaN THEN 0 ELSE t

\* new Date(Date.parse(text)) as the store keeps it
DataGravada(v) == InstanteGravado(ParseNum(v))

\* UTC midnight of the day of instant t
InicioDoDia(t) == (t \div TicksPerDay) * TicksPerDay

\* a slot with no request in it
Livre == [pc |-> "livre"]
Pedidos == 1..MaxPedidos
Livres == [p \in Pedidos |-> Livre]

---------------------------------------------------------------------------
(* Handlers.  A handler runs from one await to the next and the steps of   *)
(* the requests in flight interleave: each action below is one store call  *)
(* taking effect together with the code that runs until the next store     *)
(* call is issued or the response is sent.  emCurso[p] holds the locals of *)
(* the handler suspended in slot p.                                        *)

Suspende(p, estado) == emCurso' = [emCurso EXCEPT ![p] = estado]
Termina(p) == emCurso' = [emCurso EXCEPT ![p] = Livre]

\* updateOne on a vehicle that may be gone by now (no match, no write)
GravaVeiculo(id, novo) ==
    veiculos' = IF Existe(veiculos, id) THEN UpdateOne(veiculos, id, novo) ELSE veiculos

---------------------------------------------------------------------------
(* POST /api/veiculos: the document is built on entry, then               *)
(* findOne({placa}), then insertOne                                        *)

\* novoVeiculo, built before the first store call: the clock is read here
\* and the _id is given by insertOne
NovoVeiculo(d) ==
    [_id |-> Null,
     placa |-> NormalizaPlaca(d.placa),
     quilometragemAtual |-> PNull(d.quilometragemAtual),
     manutencaoInfo |->
        [proxTrocaOleoKm |-> PNull(d.oleoKm),
         proxTrocaOleoData |-> InstanteGravado(PNull(d.oleoData)),
         frequenciaChecklistDias |-> PNull(d.frequenciaChecklist),
         dataProxChecklist |->
            IF Truthy(d.frequenciaChecklist) /\ d.frequenciaChecklist.n > 0
            THEN MaisDias(now, d.frequenciaChecklist.n) ELSE Null,
         ultimaTrocaOleoKm |-> Null,
         ultimaTrocaOleoData |-> Null,
         ultimoChecklistData |-> Null]]

\* the handler up to the point where findOne({placa}) is issued
PostVeiculoEntra(p, d) ==
    LET novo == NovoVeiculo(d) IN
    /\ emCurso[p] = Livre
    /\ nextId <= MaxIds
    /\ IF novo.placa = <<>> \/ ~d.camposOk \/ novo.quilometragemAtual = Null
       THEN resp' = Resposta("postVeiculo", 400) /\ Termina(p)
       ELSE /\ Suspende(p, [pc |-> "buscarPlaca", novo |-> novo])
            /\ UNCHANGED resp
    /\ UNCHANGED <<veiculos, manutencoes, checklists, abastecimentos, multas,
                   nextId, now, excluidos>>

\* findOne({placa: novoVeiculo.placa})
PostVeiculoBusca(p) ==
    /\ emCurso[p].pc = "buscarPlaca"
    /\ IF \E i \in DOMAIN veiculos : veiculos[i].placa = emCurso[p].novo.placa
       THEN resp' = Resposta("postVeiculo", 409) /\ Termina(p)
       ELSE /\ Suspende(p, [pc |-> "inserirVeiculo", novo |-> emCurso[p].novo])
            /\ UNCHANGED resp
    /\ UNCHANGED <<veiculos, manutencoes, checklists, abastecimentos, multas,
                   nextId, now, excluidos>>

PostVeiculoInsere(p) ==
    /\ emCurso[p].pc = "inserirVeiculo"
    /\ nextId <= MaxIds
    /\ veiculos' = Append(veiculos, [emCurso[p].novo EXCEPT !._id = nextId])
    /\ nextId' = nextId + 1
    /\ resp' = Resposta("postVeiculo", 201)
    /\ Termina(p)
    /\ UNCHANGED <<manutencoes, checklists, abastecimentos, multas, now, excluidos>>

---------------------------------------------------------------------------
(* PUT /api/veiculos/:id: findOne({_id}), findOne({placa, _id: {$ne}}) when *)
(* the plate changes, then updateOne({_id}, {$set})                         *)

\* p(v, t) of PUT /api/veiculos/:id yields undefined for '', null and
\* undefined; the driver stores an undefined value of $set as null.
PUndef(v) == IF Presente(v) THEN v.n ELSE Null

\* veiculoAtual with $set applied, $set as the handler computes it from the
\* request and from veiculoAtual right after the first findOne
VeiculoEditado(v, d) ==
    LET freq == PUndef(d.frequenciaChecklist)
        base == IF v.manutencaoInfo.ultimoChecklistData # Null
                THEN v.manutencaoInfo.ultimoChecklistData ELSE now
        mi == v.manutencaoInfo
        mi1 == IF d.oleoKm # Undef
               THEN [mi EXCEPT !.proxTrocaOleoKm = PUndef(d.oleoKm)] ELSE mi
        mi2 == IF d.oleoData # Undef
               THEN [mi1 EXCEPT !.proxTrocaOleoData = InstanteGravado(PUndef(d.oleoData))]
               ELSE mi1
        mi3 == IF d.frequenciaChecklist # Undef
               THEN [mi2 EXCEPT !.frequenciaChecklistDias = freq,
                                !.dataProxChecklist =
                                    IF TruthyNum(freq) /\ freq > 0
                                    THEN MaisDias(base, freq) ELSE Null]
               ELSE mi2
    IN [v EXCEPT !.placa = IF d.temPlaca THEN NormalizaPlaca(d.placa) ELSE @,
                 !.quilometragemAtual =
                     IF d.quilometragemAtual # Undef
                     THEN PUndef(d.quilometragemAtual) ELSE @,
                 !.manutencaoInfo = mi3]

\* the keys of $set, with the values e holds for them, written over the
\* document the store holds when updateOne runs
ComSet(atual, e, d) ==
    [atual EXCEPT
       !.placa = IF d.temPlaca THEN e.placa ELSE @,
       !.quilometragemAtual =
           IF d.quilometragemAtual # Undef THEN e.quilometragemAtual ELSE @,
       !.manutencaoInfo =
           [@ EXCEPT
              !.proxTrocaOleoKm =
                  IF d.oleoKm # Undef THEN e.manutencaoInfo.proxTrocaOleoKm ELSE @,
              !.proxTrocaOleoData =
                  IF d.oleoData # Undef THEN e.manutencaoInfo.proxTrocaOleoData ELSE @,
              !.frequenciaChecklistDias =
                  IF d.frequenciaChecklist # Undef
                  THEN e.manutencaoInfo.frequenciaChecklistDias ELSE @,
              !.dataProxChecklist =
                  IF d.frequenciaChecklist # Undef
                  THEN e.manutencaoInfo.dataProxChecklist ELSE @]]

PutVeiculoBusca(p, id, d) ==
    /\ emCurso[p] = Livre
    /\ IF ~IdValido(id)
       THEN resp' = Resposta("putVeiculo", 400) /\ Termina(p)
       ELSE IF ~Existe(veiculos, id)
       THEN resp' = Resposta("putVeiculo", 404) /\ Termina(p)
       ELSE LET atual == FindOne(veiculos, id)
                novo == VeiculoEditado(atual, d)
            IN IF d.temPlaca /\ novo.placa = <<>>
               THEN resp' = Resposta("putVeiculo", 400) /\ Termina(p)
               ELSE /\ Suspende(p, [pc |-> IF d.temPlaca /\ novo.placa # atual.placa
                                           THEN "conferirPlaca" ELSE "gravarVeiculo",
                                    id |-> id, d |-> d, lido |-> atual,
                                    editado |-> novo])
                    /\ UNCHANGED resp
    /\ UNCHANGED <<veiculos, manutencoes, checklists, abastecimentos, multas,
                   nextId, now, excluidos>>

PutVeiculoConfere(p) ==
    /\ emCurso[p].pc = "conferirPlaca"
    /\ IF \E i \in DOMAIN veiculos :
             /\ veiculos[i].placa = emCurso[p].editado.placa
             /\ veiculos[i]._id # emCurso[p].id
       THEN resp' = Resposta("putVeiculo", 409) /\ Termina(p)
       ELSE /\ Suspende(p, [emCurso[p] EXCEPT !.pc = "gravarVeiculo"])
            /\ UNCHANGED resp
    /\ UNCHANGED <<veiculos, manutencoes, checklists, abastecimentos, multas,
                   nextId, now, excluidos>>

\* the events of a vehicle rewritten with a new plate
ComPlaca(col, id, placa) ==
    [i \in DOMAIN col |->
        IF col[i].veiculoId = id THEN [col[i] EXCEPT !.veiculoPlaca = placa] ELSE col[i]]

\* an update that carries the new plate over to the vehicle's events
PutVeiculoSincroniza(p) ==
    /\ emCurso[p].pc = "gravarVeiculo"
    /\ IF ~Existe(veiculos, emCurso[p].id)
       THEN /\ resp' = Resposta("putVeiculo", 404)
            /\ UNCHANGED <<veiculos, manutencoes, checklists, abastecimentos, multas>>
       ELSE LET novo == ComSet(FindOne(veiculos, emCurso[p].id),
                               emCurso[p].editado, emCurso[p].d)
            IN /\ veiculos' = UpdateOne(veiculos, emCurso[p].id, novo)
               /\ manutencoes' = ComPlaca(manutencoes, emCurso[p].id, novo.placa)
               /\ checklists' = ComPlaca(checklists, emCurso[p].id, novo.placa)
               /\ abastecimentos' = ComPlaca(abastecimentos, emCurso[p].id, novo.placa)
               /\ multas' = ComPlaca(multas, emCurso[p].id, novo.placa)
               /\ resp' = Resposta("putVeiculo", 200)
    /\ Termina(p)
    /\ UNCHANGED <<nextId, now, excluidos>>

PutVeiculoGrava(p) ==
    /\ emCurso[p].pc = "gravarVeiculo"
    /\ IF ~Existe(veiculos, emCurso[p].id)
       THEN /\ resp' = Resposta("putVeiculo", 404)
            /\ UNCHANGED veiculos
       ELSE /\ veiculos' = UpdateOne(veiculos, emCurso[p].id,
                              ComSet(FindOne(veiculos, emCurso[p].id),
                                     emCurso[p].editado, emCurso[p].d))
            /\ resp' = Resposta("putVeiculo", 200)
    /\ Termina(p)
    /\ UNCHANGED <<manutencoes, checklists, abastecimentos, multas, nextId, now, excluidos>>

---------------------------------------------------------------------------
(* DELETE /api/veiculos/:id: deleteOne of the vehicle, then one deleteMany  *)
(* per event collection                                                     *)

DeleteVeiculoApaga(p, id) ==
    /\ emCurso[p] = Livre
    /\ IF ~IdValido(id)
       THEN /\ resp' = Resposta("deleteVeiculo", 400)
            /\ Termina(p)
            /\ UNCHANGED veiculos
       ELSE IF ~Existe(veiculos, id)
       THEN /\ resp' = Resposta("deleteVeiculo", 404)
            /\ Termina(p)
            /\ UNCHANGED veiculos
       ELSE /\ veiculos' = DeleteOne(veiculos, id)
            /\ Suspende(p, [pc |-> "apagarManutencoes", id |-> id, removidos |-> 0])
            /\ UNCHANGED resp
    /\ UNCHANGED <<manutencoes, checklists, abastecimentos, multas, nextId, now, excluidos>>

DeleteVeiculoManutencoes(p) ==
    /\ emCurso[p].pc = "apagarManutencoes"
    /\ manutencoes' = DeleteManyVeiculo(manutencoes, emCurso[p].id)
    /\ Suspende(p, [emCurso[p] EXCEPT
                      !.pc = "apagarChecklists",
                      !.removidos = @ + Len(manutencoes) - Len(manutencoes')])
    /\ UNCHANGED <<veiculos, checklists, abastecimentos, multas, nextId, now,
                   resp, excluidos>>

DeleteVeiculoChecklists(p) ==
    /\ emCurso[p].pc = "apagarChecklists"
    /\ checklists' = DeleteManyVeiculo(checklists, emCurso[p].id)
    /\ Suspende(p, [emCurso[p] EXCEPT
                      !.pc = "apagarAbastecimentos",
                      !.removidos = @ + Len(checklists) - Len(checklists')])
    /\ UNCHANGED <<veiculos, manutencoes, abastecimentos, multas, nextId, now,
                   resp, excluidos>>

DeleteVeiculoAbastecimentos(p) ==
    /\ emCurso[p].pc = "apagarAbastecimentos"
    /\ abastecimentos' = DeleteManyVeiculo(abastecimentos, emCurso[p].id)
    /\ excluidos' = excluidos \cup
          {[id |-> emCurso[p].id,
            eventos |-> emCurso[p].removidos
                        + Len(abastecimentos) - Len(abastecimentos')]}
    /\ resp' = Resposta("deleteVeiculo", 200)
    /\ Termina(p)
    /\ UNCHANGED <<veiculos, manutencoes, checklists, multas, nextId, now>>

---------------------------------------------------------------------------
(* POST /api/manutencoes: findOne, insertOne, then updateOne of the vehicle *)
(* when updateVeiculoFields has a key; DELETE /api/manutencoes/:id          *)

\* the characters of the texts the requests use
LetrasDe(tipo) ==
    CASE tipo = "Troca de Óleo" ->
            <<"T", "r", "o", "c", "a", " ", "d", "e", " ", "Ó", "l", "e", "o">>
      [] tipo = "troca de oleo" ->
            <<"t", "r", "o", "c", "a", " ", "d", "e", " ", "o", "l", "e", "o">>
      [] tipo = "OLEO e filtro" ->
            <<"O", "L", "E", "O", " ", "e", " ", "f", "i", "l", "t", "r", "o">>
      [] tipo = "ÓLEO" -> <<"Ó", "L", "E", "O">>
      [] tipo = " ÓLEO " -> <<" ", "Ó", "L", "E", "O", " ">>
      [] tipo = "Freios" -> <<"F", "r", "e", "i", "o", "s">>
      [] tipo = " Freios " -> <<" ", "F", "r", "e", "i", "o", "s", " ">>
      [] tipo = "Ole" -> <<"O", "l", "e">>
      [] tipo = "Ana" -> <<"A", "n", "a">>
      [] tipo = " Ana " -> <<" ", "A", "n", "a", " ">>
      [] tipo = "Rui" -> <<"R", "u", "i">>
      [] tipo = "Bia" -> <<"B", "i", "a">>
      [] tipo = " " -> <<" ">>
      [] OTHER -> <<>>

Textos ==
    {"Troca de Óleo", "troca de oleo", "OLEO e filtro", "ÓLEO", " ÓLEO ", "Freios",
     " Freios ", "Ole", "Ana", " Ana ", "Rui", "Bia", " ", ""}

\* the text made of the characters s
TextoDe(s) == CHOOSE t \in Textos : LetrasDe(t) = s

RECURSIVE TrimStart(_)
TrimStart(s) == IF s # <<>> /\ Head(s) = " " THEN TrimStart(Tail(s)) ELSE s

RECURSIVE TrimEnd(_)
TrimEnd(s) ==
    IF s # <<>> /\ s[Len(s)] = " " THEN TrimEnd(SubSeq(s, 1, Len(s) - 1)) ELSE s

\* String.prototype.trim
Trim(texto) == TextoDe(TrimEnd(TrimStart(LetrasDe(texto))))

\* String.prototype.toLowerCase, character by character
ToLowerChar(c) ==
    CASE c = "O" -> "o" [] c = "Ó" -> "ó" [] c = "L" -> "l" [] c = "E" -> "e"
      [] c = "T" -> "t" [] c = "F" -> "f" [] OTHER -> c

ToLowerCase(s) == [i \in DOMAIN s |-> ToLowerChar(s[i])]

\* String.prototype.includes
Includes(s, t) ==
    \E i \in 1..(Len(s) - Len(t) + 1) : SubSeq(s, i, i + Len(t) - 1) = t

\* a test that already takes 'ole' for an oil type
EhTipoOle(tipo) == Includes(ToLowerCase(LetrasDe(tipo)), <<"o", "l", "e">>)

\* tipoManutencao.toLowerCase().includes('óleo') || ...includes('oleo')
EhTipoOleo(tipo) ==
    \/ Includes(ToLowerCase(LetrasDe(tipo)), <<"ó", "l", "e", "o">>)
    \/ Includes(ToLowerCase(LetrasDe(tipo)), <<"o", "l", "e", "o">>)

NovaManutencao(b, veiculo) ==
    [_id |-> nextId,
     veiculoId |-> b.veiculoId,
     veiculoPlaca |-> veiculo.placa,
     tipoManutencao |-> Trim(b.tipoManutencao),
     dataRealizacao |-> DataGravada(b.dataRealizacao),
     custo |-> IF Truthy(b.custo) THEN ParseNum(b.custo) ELSE Null,
     quilometragem |-> IF Truthy(b.quilometragem) THEN ParseNum(b.quilometragem) ELSE Null]

\* updateVeiculoFields applied to the vehicle document as it is in the store
\* when updateOne runs; veiculo is the document findOne returned.
VeiculoAposManutencao(v, veiculo, b, nova) ==
    LET kmManutencao == nova.quilometragem
        oleo == EhTipoOleo(b.tipoManutencao)
        mi == v.manutencaoInfo
        mi1 == IF oleo THEN [mi EXCEPT !.ultimaTrocaOleoData = nova.dataRealizacao] ELSE mi
        mi2 == IF oleo /\ TruthyNum(kmManutencao)
               THEN [mi1 EXCEPT !.ultimaTrocaOleoKm = kmManutencao] ELSE mi1
        mi3 == IF oleo /\ Presente(b.proxTrocaOleoKm)
               THEN [mi2 EXCEPT !.proxTrocaOleoKm = ParseNum(b.proxTrocaOleoKm)]
               ELSE IF oleo /\ b.proxTrocaOleoKm \in {Vazio, JNull}
               THEN [mi2 EXCEPT !.proxTrocaOleoKm = Null] ELSE mi2
        mi4 == IF oleo /\ Presente(b.proxTrocaOleoData)
               THEN [mi3 EXCEPT !.proxTrocaOleoData = DataGravada(b.proxTrocaOleoData)]
               ELSE IF oleo /\ b.proxTrocaOleoData \in {Vazio, JNull}
               THEN [mi3 EXCEPT !.proxTrocaOleoData = Null] ELSE mi3
    IN [v EXCEPT !.quilometragemAtual =
                    IF TruthyNum(kmManutencao)
                       /\ JsGt(kmManutencao, OuZero(veiculo.quilometragemAtual))
                    THEN kmManutencao ELSE @,
                 !.manutencaoInfo = mi4]

\* Object.keys(updateVeiculoFields).length > 0
TemCamposVeiculo(b, veiculo, nova) ==
    \/ TruthyNum(nova.quilometragem)
       /\ JsGt(nova.quilometragem, OuZero(veiculo.quilometragemAtual))
    \/ EhTipoOleo(b.tipoManutencao)

\* the 400 checks made before the store is read
ManutencaoIncompleta(b) ==
    \/ ~IdValido(b.veiculoId)
    \/ b.tipoManutencao = ""
    \/ ~Truthy(b.dataRealizacao)
    \/ b.quilometragem = Undef

PostManutencaoBusca(p, b) ==
    /\ emCurso[p] = Livre
    /\ nextId <= MaxIds
    /\ IF ManutencaoIncompleta(b)
       THEN resp' = Resposta("postManutencao", 400) /\ Termina(p)
       ELSE IF ~Existe(veiculos, b.veiculoId)
       THEN resp' = Resposta("postManutencao", 404) /\ Termina(p)
       ELSE /\ Suspende(p, [pc |-> "inserirManutencao", b |-> b,
                            lido |-> FindOne(veiculos, b.veiculoId),
                            nova |-> NovaManutencao(b, FindOne(veiculos, b.veiculoId))])
            /\ UNCHANGED resp
    /\ UNCHANGED <<veiculos, manutencoes, checklists, abastecimentos, multas,
                   nextId, now, excluidos>>

PostManutencaoInsere(p) ==
    LET nova == [emCurso[p].nova EXCEPT !._id = nextId] IN
    /\ emCurso[p].pc = "inserirManutencao"
    /\ nextId <= MaxIds
    /\ manutencoes' = Append(manutencoes, nova)
    /\ nextId' = nextId + 1
    /\ IF TemCamposVeiculo(emCurso[p].b, emCurso[p].lido, nova)
       THEN /\ Suspende(p, [pc |-> "gravarManutencao", b |-> emCurso[p].b,
                            lido |-> emCurso[p].lido, nova |-> nova,
                            inserido |-> nextId])
            /\ UNCHANGED resp
       ELSE resp' = Resposta("postManutencao", 201) /\ Termina(p)
    /\ UNCHANGED <<veiculos, checklists, abastecimentos, multas, now, excluidos>>

PostManutencaoGrava(p) ==
    /\ emCurso[p].pc = "gravarManutencao"
    /\ LET id == emCurso[p].b.veiculoId
       IN GravaVeiculo(id, VeiculoAposManutencao(FindOne(veiculos, id), emCurso[p].lido,
                                                 emCurso[p].b, emCurso[p].nova))
    /\ resp' = Resposta("postManutencao", 201)
    /\ Termina(p)
    /\ UNCHANGED <<manutencoes, checklists, abastecimentos, multas, nextId, now, excluidos>>

DeleteManutencao(id) ==
    /\ IF ~IdValido(id)
       THEN /\ resp' = Resposta("deleteManutencao", 400)
            /\ UNCHANGED manutencoes
       ELSE IF ~Existe(manutencoes, id)
       THEN /\ resp' = Resposta("deleteManutencao", 404)
            /\ UNCHANGED manutencoes
       ELSE /\ manutencoes' = DeleteOne(manutencoes, id)
            /\ resp' = Resposta("deleteManutencao", 200)
    /\ UNCHANGED <<emCurso, veiculos, checklists, abastecimentos, multas, nextId,
                   now, excluidos>>

---------------------------------------------------------------------------
(* POST /api/checklists/iniciar: findOne, insertOne, updateOne              *)

\* novoChecklistPendente, built right after findOne: dataDeInicio is the
\* instant of that moment
NovoChecklistPendente(b, veiculo) ==
    [_id |-> nextId,
     veiculoId |-> b.veiculoId,
     veiculoPlaca |-> veiculo.placa,
     dataIniciado |-> now,
     status |-> "pendente",
     dataRealizacao |-> Null,
     quilometragem |-> Null,
     realizadoPor |-> NullTxt,
     observacoesGerais |-> NullTxt]

\* a start that records its instant and leaves the next date alone
VeiculoAposIniciarSemData(v, veiculo, dataDeInicio) ==
    [v EXCEPT !.manutencaoInfo.ultimoChecklistData = dataDeInicio]

\* updateVeiculoFields applied to the stored document v; veiculo is the
\* document findOne returned
VeiculoAposIniciar(v, veiculo, dataDeInicio) ==
    LET freq == veiculo.manutencaoInfo.frequenciaChecklistDias
        mi == [v.manutencaoInfo EXCEPT !.ultimoChecklistData = dataDeInicio]
    IN [v EXCEPT !.manutencaoInfo =
            IF TruthyNum(freq) /\ freq > 0
            THEN [mi EXCEPT !.dataProxChecklist = MaisDias(dataDeInicio, freq)] ELSE mi]

ChecklistIniciarBusca(p, b) ==
    /\ emCurso[p] = Livre
    /\ nextId <= MaxIds
    /\ IF ~IdValido(b.veiculoId)
       THEN resp' = Resposta("checklistIniciar", 400) /\ Termina(p)
       ELSE IF ~Existe(veiculos, b.veiculoId)
       THEN resp' = Resposta("checklistIniciar", 404) /\ Termina(p)
       ELSE /\ Suspende(p, [pc |-> "inserirChecklist", b |-> b,
                            lido |-> FindOne(veiculos, b.veiculoId),
                            novo |-> NovoChecklistPendente(b, FindOne(veiculos, b.veiculoId))])
            /\ UNCHANGED resp
    /\ UNCHANGED <<veiculos, manutencoes, checklists, abastecimentos, multas,
                   nextId, now, excluidos>>

ChecklistIniciarInsere(p) ==
    /\ emCurso[p].pc = "inserirChecklist"
    /\ nextId <= MaxIds
    /\ checklists' = Append(checklists, [emCurso[p].novo EXCEPT !._id = nextId])
    /\ nextId' = nextId + 1
    /\ Suspende(p, [pc |-> "gravarChecklist", b |-> emCurso[p].b,
                    lido |-> emCurso[p].lido, novo |-> emCurso[p].novo,
                    inserido |-> nextId])
    /\ UNCHANGED <<veiculos, manutencoes, abastecimentos, multas, now, resp, excluidos>>

ChecklistIniciarGrava(p) ==
    /\ emCurso[p].pc = "gravarChecklist"
    /\ LET id == emCurso[p].b.veiculoId
       IN GravaVeiculo(id, VeiculoAposIniciar(FindOne(veiculos, id), emCurso[p].lido,
                                              emCurso[p].novo.dataIniciado))
    /\ resp' = Resposta("checklistIniciar", 201)
    /\ Termina(p)
    /\ UNCHANGED <<manutencoes, checklists, abastecimentos, multas, nextId, now, excluidos>>

---------------------------------------------------------------------------
(* POST /api/checklists/:id/registrar-resultado: findOne({_id, status:      *)
(* "pendente"}), findOne of the vehicle, updateOne of the checklist,        *)
(* updateOne of the vehicle; DELETE /api/checklists/:id                     *)

\* the lookup without the status filter
ExisteChecklist(id) == \E i \in DOMAIN checklists : checklists[i]._id = id

\* findOne({_id: id, status: "pendente"})
ExistePendente(id) ==
    \E i \in DOMAIN checklists :
        checklists[i]._id = id /\ checklists[i].status = "pendente"

ChecklistConcluido(c, b) ==
    [c EXCEPT !.status = "concluido",
              !.dataRealizacao = DataGravada(b.dataRealizacao),
              !.quilometragem = ParseNum(b.quilometragem),
              !.realizadoPor = Trim(b.realizadoPor),
              !.observacoesGerais = IF b.observacoesGerais = "" THEN NullTxt
                                    ELSE Trim(b.observacoesGerais)]

\* a completion that takes the checklist's reading whatever the odometer is
VeiculoAposResultadoSemComparar(v, veiculo, b) ==
    LET pKm == ParseNum(b.quilometragem)
        dataR == ParseNum(b.dataRealizacao)
        freq == veiculo.manutencaoInfo.frequenciaChecklistDias
        mi == [v.manutencaoInfo EXCEPT !.ultimoChecklistData = InstanteGravado(dataR)]
    IN [v EXCEPT !.quilometragemAtual = pKm,
                 !.manutencaoInfo =
                    IF TruthyNum(freq) /\ freq > 0
                    THEN [mi EXCEPT !.dataProxChecklist =
                                        InstanteGravado(MaisDias(dataR, freq))]
                    ELSE mi]

\* updateVeiculo applied to the stored document v; veiculo is the document
\* findOne returned
VeiculoAposResultado(v, veiculo, b) ==
    LET pKm == ParseNum(b.quilometragem)
        dataR == ParseNum(b.dataRealizacao)
        freq == veiculo.manutencaoInfo.frequenciaChecklistDias
        mi == [v.manutencaoInfo EXCEPT !.ultimoChecklistData = InstanteGravado(dataR)]
    IN [v EXCEPT !.quilometragemAtual =
                    IF JsGt(pKm, OuZero(veiculo.quilometragemAtual)) THEN pKm ELSE @,
                 !.manutencaoInfo =
                    IF TruthyNum(freq) /\ freq > 0
                    THEN [mi EXCEPT !.dataProxChecklist =
                                        InstanteGravado(MaisDias(dataR, freq))]
                    ELSE mi]

\* the 400 checks made before the store is read
ResultadoIncompleto(id, b) ==
    \/ ~IdValido(id)
    \/ ~Truthy(b.dataRealizacao)
    \/ b.quilometragem = Undef
    \/ b.realizadoPor = ""
    \/ ~b.itensArray

RegistrarResultadoBusca(p, id, b) ==
    /\ emCurso[p] = Livre
    /\ IF ResultadoIncompleto(id, b)
       THEN resp' = Resposta("registrarResultado", 400) /\ Termina(p)
       ELSE IF ~ExistePendente(id)
       THEN resp' = Resposta("registrarResultado", 404) /\ Termina(p)
       ELSE /\ Suspende(p, [pc |-> "buscarVeiculo", id |-> id, b |-> b,
                            checklist |-> FindOne(checklists, id)])
            /\ UNCHANGED resp
    /\ UNCHANGED <<veiculos, manutencoes, checklists, abastecimentos, multas,
                   nextId, now, excluidos>>

RegistrarResultadoVeiculo(p) ==
    /\ emCurso[p].pc = "buscarVeiculo"
    /\ IF ~Existe(veiculos, emCurso[p].checklist.veiculoId)
       THEN resp' = Resposta("registrarResultado", 404) /\ Termina(p)
       ELSE /\ Suspende(p, [pc |-> "concluirChecklist", id |-> emCurso[p].id,
                            b |-> emCurso[p].b, checklist |-> emCurso[p].checklist,
                            lido |-> FindOne(veiculos, emCurso[p].checklist.veiculoId)])
            /\ UNCHANGED resp
    /\ UNCHANGED <<veiculos, manutencoes, checklists, abastecimentos, multas,
                   nextId, now, excluidos>>

\* updateOne({_id: id}, update): the filter names the id alone
RegistrarResultadoConclui(p) ==
    /\ emCurso[p].pc = "concluirChecklist"
    /\ checklists' =
          IF Existe(checklists, emCurso[p].id)
          THEN UpdateOne(checklists, emCurso[p].id,
                         ChecklistConcluido(FindOne(checklists, emCurso[p].id), emCurso[p].b))
          ELSE checklists
    /\ Suspende(p, [emCurso[p] EXCEPT !.pc = "gravarResultado"])
    /\ UNCHANGED <<veiculos, manutencoes, abastecimentos, multas, nextId, now,
                   resp, excluidos>>

RegistrarResultadoGrava(p) ==
    /\ emCurso[p].pc = "gravarResultado"
    /\ LET id == emCurso[p].checklist.veiculoId
       IN GravaVeiculo(id, VeiculoAposResultado(FindOne(veiculos, id),
                                                emCurso[p].lido, emCurso[p].b))
    /\ resp' = Resposta("registrarResultado", 200)
    /\ Termina(p)
    /\ UNCHANGED <<manutencoes, checklists, abastecimentos, multas, nextId, now, excluidos>>

DeleteChecklist(id) ==
    /\ IF ~IdValido(id)
       THEN /\ resp' = Resposta("deleteChecklist", 400)
            /\ UNCHANGED checklists
       ELSE IF ~Existe(checklists, id)
       THEN /\ resp' = Resposta("deleteChecklist", 404)
            /\ UNCHANGED checklists
       ELSE /\ checklists' = DeleteOne(checklists, id)
            /\ resp' = Resposta("deleteChecklist", 200)
    /\ UNCHANGED <<emCurso, veiculos, manutencoes, abastecimentos, multas, nextId,
                   now, excluidos>>

---------------------------------------------------------------------------
(* POST /api/abastecimentos: findOne({_id}), insertOne, then                *)
(* updateOne({_id}, {$set: {quilometragemAtual: pKm}})                      *)

\* custoTotal ? parseFloat(custoTotal) : (pL * pVl)
CustoTotalDe(b) ==
    IF Truthy(b.custoTotal) THEN ParseNum(b.custoTotal)
    ELSE ParseNum(b.litros) * ParseNum(b.valorPorLitro)

NovoAbastecimento(b, veiculo) ==
    [_id |-> nextId,
     veiculoId |-> b.veiculoId,
     veiculoPlaca |-> veiculo.placa,
     data |-> DataGravada(b.data),
     quilometragemAtual |-> ParseNum(b.quilometragemAtual),
     litros |-> ParseNum(b.litros),
     valorPorLitro |-> ParseNum(b.valorPorLitro),
     custoTotal |-> CustoTotalDe(b)]

\* the two 400 checks made before the store is read
AbastecimentoInvalido(b) ==
    \/ ~IdValido(b.veiculoId)
    \/ ~Truthy(b.data)
    \/ ~Truthy(b.quilometragemAtual)
    \/ ~Truthy(b.litros)
    \/ ~Truthy(b.valorPorLitro)
    \/ ParseNum(b.quilometragemAtual) < 0
    \/ ParseNum(b.litros) <= 0
    \/ ParseNum(b.valorPorLitro) <= 0
    \/ CustoTotalDe(b) < 0

\* the comparison written with <= instead of <
KmMenorOuIgual(pKm, veiculo) == pKm <= OuZero(veiculo.quilometragemAtual)

\* pKm < (veiculo.quilometragemAtual || 0)
KmMenorQueRegistrada(pKm, veiculo) == pKm < OuZero(veiculo.quilometragemAtual)

\* a handler that looks the vehicle up before it validates the request
PostAbastecimentoBuscaPrimeiro(p, b) ==
    /\ emCurso[p] = Livre
    /\ nextId <= MaxIds
    /\ IF ~Existe(veiculos, b.veiculoId)
       THEN resp' = Resposta("postAbastecimento", 404) /\ Termina(p)
       ELSE IF AbastecimentoInvalido(b)
       THEN resp' = Resposta("postAbastecimento", 400) /\ Termina(p)
       ELSE IF KmMenorQueRegistrada(ParseNum(b.quilometragemAtual),
                                    FindOne(veiculos, b.veiculoId))
       THEN resp' = Resposta("postAbastecimento", 400) /\ Termina(p)
       ELSE /\ Suspende(p, [pc |-> "inserirAbastecimento", b |-> b,
                            lido |-> FindOne(veiculos, b.veiculoId),
                            novo |-> NovoAbastecimento(b, FindOne(veiculos, b.veiculoId))])
            /\ UNCHANGED resp
    /\ UNCHANGED <<veiculos, manutencoes, checklists, abastecimentos, multas,
                   nextId, now, excluidos>>

PostAbastecimentoBusca(p, b) ==
    /\ emCurso[p] = Livre
    /\ nextId <= MaxIds
    /\ IF AbastecimentoInvalido(b)
       THEN resp' = Resposta("postAbastecimento", 400) /\ Termina(p)
       ELSE IF ~Existe(veiculos, b.veiculoId)
       THEN resp' = Resposta("postAbastecimento", 404) /\ Termina(p)
       ELSE IF KmMenorQueRegistrada(ParseNum(b.quilometragemAtual),
                                    FindOne(veiculos, b.veiculoId))
       THEN resp' = Resposta("postAbastecimento", 400) /\ Termina(p)
       ELSE /\ Suspende(p, [pc |-> "inserirAbastecimento", b |-> b,
                            lido |-> FindOne(veiculos, b.veiculoId),
                            novo |-> NovoAbastecimento(b, FindOne(veiculos, b.veiculoId))])
            /\ UNCHANGED resp
    /\ UNCHANGED <<veiculos, manutencoes, checklists, abastecimentos, multas,
                   nextId, now, excluidos>>

PostAbastecimentoInsere(p) ==
    /\ emCurso[p].pc = "inserirAbastecimento"
    /\ nextId <= MaxIds
    /\ abastecimentos' = Append(abastecimentos, [emCurso[p].novo EXCEPT !._id = nextId])
    /\ nextId' = nextId + 1
    /\ Suspende(p, [pc |-> "gravarKm", b |-> emCurso[p].b, lido |-> emCurso[p].lido,
                    inserido |-> nextId])
    /\ UNCHANGED <<veiculos, manutencoes, checklists, multas, now, resp, excluidos>>

PostAbastecimentoGrava(p) ==
    /\ emCurso[p].pc = "gravarKm"
    /\ LET id == emCurso[p].b.veiculoId
       IN GravaVeiculo(id, [FindOne(veiculos, id) EXCEPT
                              !.quilometragemAtual =
                                  ParseNum(emCurso[p].b.quilometragemAtual)])
    /\ resp' = Resposta("postAbastecimento", 201)
    /\ Termina(p)
    /\ UNCHANGED <<manutencoes, checklists, abastecimentos, multas, nextId, now, excluidos>>

---------------------------------------------------------------------------
(* The clock *)

Tick ==
    /\ now < TicksPerDay + MaxNow
    /\ now' = now + 1
    /\ UNCHANGED <<emCurso, veiculos, manutencoes, checklists, abastecimentos, multas,
                   nextId, resp, excluidos>>

---------------------------------------------------------------------------
(* Spec: the fleet under a stream of requests, up to MaxPedidos in flight. *)

RespInicial == [op |-> "none", status |-> 0, body |-> <<>>, n |-> 0, em |-> 0]

Init ==
    /\ veiculos = <<>>
    /\ manutencoes = <<>>
    /\ checklists = <<>>
    /\ abastecimentos = <<>>
    /\ multas = <<>>
    /\ nextId = 1
    /\ now = 0
    /\ resp = RespInicial
    /\ excluidos = {}
    /\ emCurso = Livres

\* ids a request may name: malformed, stored, or well-formed and not stored
IdsPedidos == {IdInvalido} \cup Ids

Kms == 0..MaxKm

VeiculoBody(placa, ok, km, oleoKm, oleoData, freq) ==
    [placa |-> placa, camposOk |-> ok, quilometragemAtual |-> km,
     oleoKm |-> oleoKm, oleoData |-> oleoData, frequenciaChecklist |-> freq]

\* a text that is no date
TextoSemData == Str(NaN)

ReqPostVeiculo ==
    {VeiculoBody(<<"a", "-", "1">>, TRUE, Num(1), Undef, TextoSemData, Num(1)),
     VeiculoBody(<<"-">>, TRUE, Num(1), Undef, Undef, Undef)}

EditBody(tem, placa, km, oleoKm, oleoData, freq) ==
    [temPlaca |-> tem, placa |-> placa, quilometragemAtual |-> km,
     oleoKm |-> oleoKm, oleoData |-> oleoData, frequenciaChecklist |-> freq]

ReqPutVeiculo ==
    {EditBody(FALSE, <<>>, Num(0), Undef, Undef, Undef),
     EditBody(TRUE, <<"-">>, Undef, Undef, Undef, Undef)}

ManutencaoBody(vid, tipo, data, custo, km, proxKm, proxData) ==
    [veiculoId |-> vid, tipoManutencao |-> tipo, dataRealizacao |-> data,
     custo |-> custo, quilometragem |-> km,
     proxTrocaOleoKm |-> proxKm, proxTrocaOleoData |-> proxData]

ReqPostManutencao ==
    {ManutencaoBody(vid, "Freios", Str(0), Undef, km, Undef, Undef) :
        vid \in IdsPedidos, km \in {Undef} \cup {Num(k) : k \in Kms}}

ResultadoBody(data, km, por, obs, itens) ==
    [dataRealizacao |-> data, quilometragem |-> km, realizadoPor |-> por,
     observacoesGerais |-> obs, itensArray |-> itens]

ReqRegistrarResultado ==
    {ResultadoBody(Str(0), km, "Ana", "", TRUE) : km \in {Undef, Num(MaxKm)}}

AbastecimentoBody(vid, data, km, litros, valor, custo) ==
    [veiculoId |-> vid, data |-> data, quilometragemAtual |-> km,
     litros |-> litros, valorPorLitro |-> valor, custoTotal |-> custo]

ReqPostAbastecimento ==
    {AbastecimentoBody(vid, Str(0), km, Num(l), Num(3), Undef) :
        vid \in IdsPedidos,
        km \in {Str(0)} \cup {Num(k) : k \in Kms},
        l \in {0, 2}}
    \cup {AbastecimentoBody(1, Str(0), Undef, Num(2), Num(3), Undef)}

\* the maintenance and fueling requests of the stream: for the first
\* vehicle, with a reading or without one
ReqManutencaoDaFrota ==
    {b \in ReqPostManutencao : b.veiculoId = 1 /\ b.quilometragem \in {Undef, Num(1)}}

ReqAbastecimentoDaFrota ==
    {b \in ReqPostAbastecimento :
        b.veiculoId = 1 /\ b.litros = Num(2)
        /\ b.quilometragemAtual \in {Num(0), Num(MaxKm)}}

Next ==
    \/ \E p \in Pedidos, d \in ReqPostVeiculo : PostVeiculoEntra(p, d)
    \/ \E p \in Pedidos : PostVeiculoBusca(p)
    \/ \E p \in Pedidos : PostVeiculoInsere(p)
    \/ \E p \in Pedidos, id \in IdsPedidos, d \in ReqPutVeiculo : PutVeiculoBusca(p, id, d)
    \/ \E p \in Pedidos : PutVeiculoGrava(p)
    \/ \E p \in Pedidos, b \in ReqManutencaoDaFrota : PostManutencaoBusca(p, b)
    \/ \E p \in Pedidos : PostManutencaoInsere(p)
    \/ \E p \in Pedidos : PostManutencaoGrava(p)
    \/ \E p \in Pedidos, vid \in IdsPedidos : ChecklistIniciarBusca(p, [veiculoId |-> vid])
    \/ \E p \in Pedidos : ChecklistIniciarInsere(p)
    \/ \E p \in Pedidos : ChecklistIniciarGrava(p)
    \/ \E p \in Pedidos, id \in IdsPedidos, b \in ReqRegistrarResultado :
          RegistrarResultadoBusca(p, id, b)
    \/ \E p \in Pedidos : RegistrarResultadoVeiculo(p)
    \/ \E p \in Pedidos : RegistrarResultadoConclui(p)
    \/ \E p \in Pedidos : RegistrarResultadoGrava(p)
    \/ \E p \in Pedidos, b \in ReqAbastecimentoDaFrota : PostAbastecimentoBusca(p, b)
    \/ \E p \in Pedidos : PostAbastecimentoInsere(p)
    \/ \E p \in Pedidos : PostAbastecimentoGrava(p)

Spec == Init /\ [][Next]_vars

---------------------------------------------------------------------------
(* Properties of the fleet under Spec *)

\* the stored odometer as a number (a stored null reads as 0)
KmDe(v) == IF v.quilometragemAtual = Null THEN 0 ELSE v.quilometragemAtual

\* every required field of a fueling request is given and positive; a
\* reading sent as the JSON number 0 counts as not given
CamposAbastecimentoOk(b) ==
    /\ b.veiculoId # IdInvalido
    /\ b.data.k = "str"
    /\ b.quilometragemAtual.k = "str" \/ (b.quilometragemAtual.k = "num" /\ b.quilometragemAtual.n > 0)
    /\ b.litros.k = "num" /\ b.litros.n > 0
    /\ b.valorPorLitro.k = "num" /\ b.valorPorLitro.n > 0

TemLeitura(b) == b.quilometragemAtual.k \in {"num", "str"}

\* C2: a vehicle's quilometragemAtual never decreases: in every step, every
\* vehicle that stays in the store keeps or raises its stored value.
C2_OdometerNeverDecreases ==
    [][\A i \in DOMAIN veiculos : \A j \in DOMAIN veiculos' :
         veiculos[i]._id = veiculos'[j]._id => KmDe(veiculos'[j]) >= KmDe(veiculos[i])]_vars

---------------------------------------------------------------------------
(* Checklists of one vehicle started, completed and deleted                *)

InitCiclo ==
    /\ veiculos = <<[_id |-> 1, placa |-> <<"A", "1">>, quilometragemAtual |-> 1,
                     manutencaoInfo |->
                        [proxTrocaOleoKm |-> Null, proxTrocaOleoData |-> Null,
                         frequenciaChecklistDias |-> 1, dataProxChecklist |-> Null,
                         ultimaTrocaOleoKm |-> Null, ultimaTrocaOleoData |-> Null,
                         ultimoChecklistData |-> Null]]>>
    /\ manutencoes = <<>>
    /\ checklists = <<>>
    /\ abastecimentos = <<>>
    /\ multas = <<>>
    /\ nextId = 2
    /\ now = 0
    /\ resp = RespInicial
    /\ excluidos = {}
    /\ emCurso = Livres

NextCiclo ==
    \/ \E p \in Pedidos, vid \in IdsPedidos : ChecklistIniciarBusca(p, [veiculoId |-> vid])
    \/ \E p \in Pedidos : ChecklistIniciarInsere(p)
    \/ \E p \in Pedidos : ChecklistIniciarGrava(p)
    \/ \E p \in Pedidos, id \in IdsPedidos, b \in ReqRegistrarResultado :
          RegistrarResultadoBusca(p, id, b)
    \/ \E p \in Pedidos : RegistrarResultadoVeiculo(p)
    \/ \E p \in Pedidos : RegistrarResultadoConclui(p)
    \/ \E p \in Pedidos : RegistrarResultadoGrava(p)
    \/ \E id \in IdsPedidos : DeleteChecklist(id)

SpecCiclo == InitCiclo /\ [][NextCiclo]_vars

ChecklistDe(col, id) == col[CHOOSE i \in DOMAIN col : col[i]._id = id]

CamposResultadoOk(b) ==
    /\ b.dataRealizacao.k = "str"
    /\ b.quilometragem.k = "num"
    /\ b.realizadoPor # ""
    /\ b.itensArray

\* C8: a checklist is pendente with null completion fields or concluido with
\* them set; a valid registrar-resultado that finds the checklist pendente
\* goes on and its update makes the checklist concluido with the request's
\* completion fields; a registrar-resultado that looks up a checklist that
\* is concluido fails, with 404 when its body is complete (400 when it is
\* not), and changes neither checklists nor vehicles; no step turns a
\* concluido checklist pendente again.
C8_ChecklistLifecycle ==
    /\ [](\A i \in DOMAIN checklists :
            LET c == checklists[i] IN
            \/ /\ c.status = "pendente"
               /\ c.dataRealizacao = Null /\ c.quilometragem = Null
               /\ c.realizadoPor = NullTxt /\ c.observacoesGerais = NullTxt
            \/ /\ c.status = "concluido"
               /\ c.dataRealizacao # Null /\ c.quilometragem # Null
               /\ c.realizadoPor # NullTxt)
    /\ [][/\ \A p \in Pedidos, id \in Ids, b \in ReqRegistrarResultado :
               (RegistrarResultadoBusca(p, id, b) /\ Existe(checklists, id)) =>
                  LET c == ChecklistDe(checklists, id) IN
                  /\ c.status = "concluido" =>
                        /\ resp'.status \in {400, 404}
                        /\ CamposResultadoOk(b) => resp'.status = 404
                        /\ emCurso'[p] = Livre
                        /\ UNCHANGED store
                  /\ (c.status = "pendente" /\ CamposResultadoOk(b)) =>
                        /\ emCurso'[p].pc = "buscarVeiculo"
                        /\ emCurso'[p].b = b /\ emCurso'[p].id = id
          /\ \A p \in Pedidos :
               (emCurso[p].pc = "concluirChecklist" /\ RegistrarResultadoConclui(p)
                   /\ Existe(checklists, emCurso[p].id)) =>
                  LET c == ChecklistDe(checklists', emCurso[p].id)
                      b == emCurso[p].b
                  IN /\ c.status = "concluido"
                     /\ c.dataRealizacao = b.dataRealizacao.n
                     /\ c.quilometragem = b.quilometragem.n
                     /\ c.realizadoPor = b.realizadoPor
          /\ \A p \in Pedidos :
               (emCurso[p].pc = "gravarResultado" /\ RegistrarResultadoGrava(p)) =>
                  resp'.status = 200
          /\ \A i \in DOMAIN checklists : \A j \in DOMAIN checklists' :
               (checklists[i]._id = checklists'[j]._id /\ checklists[i].status = "concluido")
                  => checklists'[j].status = "concluido"]_vars

\* C8 witness: a checklist has been completed and a further
\* registrar-resultado call was answered 404.
C8_Witness ==
    /\ \E i \in DOMAIN checklists : checklists[i].status = "concluido"
    /\ resp.op = "registrarResultado" /\ resp.status = 404
    /\ emCurso = Livres

---------------------------------------------------------------------------
(* getDateQuery and the date part of a find() *)

MesesPorAno == 2     \* months of a year of the calendar
DiasPorMes == 2      \* days of a month of the calendar

\* Date.UTC(ano, 0, 1) and Date.UTC(ano, mes - 1, 1), mes counted from 1
InicioDoAno(ano) == ano * MesesPorAno * DiasPorMes * TicksPerDay
InicioDoMes(ano, mes) == InicioDoAno(ano) + (mes - 1) * DiasPorMes * TicksPerDay

\* getDateQuery(dataInicio, dataFim): the bounds of dateMatch, a day given as
\* its number, Null for a bound that is not given
GetDateQuery(dataInicio, dataFim) ==
    [gte |-> IF dataInicio # Null THEN dataInicio * TicksPerDay ELSE Null,
     lte |-> IF dataFim # Null THEN (dataFim + 1) * TicksPerDay - 1 ELSE Null]

TemDateMatch(f) == f.gte # Null \/ f.lte # Null

\* a stored date against the date part of a find(); no date matches a range
DataNoFiltro(f, d) ==
    TemDateMatch(f) =>
        /\ d # Null
        /\ f.gte # Null => d >= f.gte
        /\ f.lte # Null => d <= f.lte

\* Date.parse(mes + 'T00:00:00.000Z') of a month number: no ISO date, so
\* either NaN, which the driver writes as the epoch, or the reading of a
\* lenient parser, that month of its default year
InstantesDeMes(mes) == IF mes = Null THEN {Null} ELSE {0, InicioDoMes(0, mes)}

\* Date.parse(ano + 'T23:59:59.999Z') of a year: the last instant of the
\* first day of the year, or NaN written as the epoch
InstantesDeAno(ano) ==
    IF ano = Null THEN {Null} ELSE {0, InicioDoAno(ano) + TicksPerDay - 1}

\* getDateQuery(mes, ano) as the routes that still pass a month and a year
\* call it: mes is taken for dataInicio and ano for dataFim
FiltrosMesAno(mes, ano) ==
    {[gte |-> g, lte |-> l] : g \in InstantesDeMes(mes), l \in InstantesDeAno(ano)}

---------------------------------------------------------------------------
(* GET /api/relatorios/analise-combustivel *)

\* .sort({ veiculoId: 1, data: 1, quilometragemAtual: 1 })
AntesNaAnalise(a, b) ==
    \/ a.veiculoId < b.veiculoId
    \/ a.veiculoId = b.veiculoId /\ a.data < b.data
    \/ a.veiculoId = b.veiculoId /\ a.data = b.data
       /\ a.quilometragemAtual < b.quilometragemAtual

\* detalhes.sort((x, y) => new Date(y.data) - new Date(x.data))
MaisRecente(x, y) == x.data > y.data

\* prioridadeStatus of the sort of /api/manutencoes/proximas
PrioridadeStatus(status) ==
    IF status \in {"VENCIDO_DATA_KM", "VENCIDO_KM", "VENCIDO_DATA"} THEN 0
    ELSE IF status = "AVISO_CHECKLIST" THEN 1
    ELSE 2

\* a date order in which an entry without a date comes first
DataAntesSemDataPrimeiro(x, y) == y # Null /\ (x = Null \/ x < y)

\* dateA.getTime() - dateB.getTime() < 0, an entry without a date taking
\* the latest date there is
DataAntes(x, y) == x # Null /\ (y = Null \/ x < y)

\* eventosFuturosEAlertas.sort(...): overdue first, then warnings, then the
\* rest; the earlier date first inside one priority
AntesNasProximas(a, b) ==
    \/ PrioridadeStatus(a.statusAlerta) < PrioridadeStatus(b.statusAlerta)
    \/ /\ PrioridadeStatus(a.statusAlerta) = PrioridadeStatus(b.statusAlerta)
       /\ DataAntes(a.dataPrevista, b.dataPrevista)

\* the strict order a sort goes by
Antes(ordem, a, b) ==
    IF ordem = "analise" THEN AntesNaAnalise(a, b)
    ELSE IF ordem = "proximas" THEN AntesNasProximas(a, b)
    ELSE MaisRecente(a, b)

\* sort(): a stable sort of seq by the order named
RECURSIVE InsereOrdenado(_, _, _)
InsereOrdenado(x, seq, ordem) ==
    IF seq = <<>> THEN <<x>>
    ELSE IF Antes(ordem, x, seq[1]) THEN <<x>> \o seq
    ELSE <<seq[1]>> \o InsereOrdenado(x, Tail(seq), ordem)

RECURSIVE Ordena(_, _)
Ordena(seq, ordem) ==
    IF seq = <<>> THEN <<>>
    ELSE InsereOrdenado(seq[Len(seq)], Ordena(SubSeq(seq, 1, Len(seq) - 1), ordem), ordem)

\* an update of the last-seen odometer that skips the events without a trip
UltimoKmSoSeValido(ultimo, a) ==
    IF a.veiculoId \in DOMAIN ultimo /\ ~(a.quilometragemAtual > ultimo[a.veiculoId])
    THEN ultimo
    ELSE [v \in DOMAIN ultimo \cup {a.veiculoId} |->
            IF v = a.veiculoId THEN a.quilometragemAtual ELSE ultimo[v]]

\* ultimoKmPorVeiculo[vIdStr] = a.quilometragemAtual
AtualizaUltimoKm(ultimo, a) ==
    [v \in DOMAIN ultimo \cup {a.veiculoId} |->
        IF v = a.veiculoId THEN a.quilometragemAtual ELSE ultimo[v]]

\* sumario.totalKmRodados += kmRodados, inside the branch of a valid trip only
SomaKmRodados(km, kmRodados, a) ==
    IF kmRodados # Null THEN km + kmRodados ELSE km

\* kmRodados of event a given the last-seen odometers, null when undefined
KmRodadosDe(ultimo, a) ==
    IF a.veiculoId \in DOMAIN ultimo /\ a.quilometragemAtual > ultimo[a.veiculoId]
    THEN a.quilometragemAtual - ultimo[a.veiculoId]
    ELSE Null

\* parseFloat((a / b).toFixed(casas)), in units of 10^-casas, for integers
\* a >= 0 and b > 0.  a / b is the double nearest to the quotient (53
\* significant bits, ties to the even one) and toFixed rounds the exact
\* value of that double, half up.  The double differs from the quotient by
\* far less than the distance of a quotient from a half unless the quotient
\* is itself half way between two results; there the result is the lower
\* one exactly when the division rounded down (3 / 40 gives 0.07, 1 / 8
\* gives 0.13).  The direction of the division is looked at only there.
Arredonda(a, b, escala) ==
    LET k == (a * escala) \div b
        resto == (a * escala) % b
        \* e: 2^e <= a / b < 2^(e + 1)
        sobe[x \in Nat] == IF x >= b THEN 0 ELSE 1 + sobe[2 * x]
        desce[y \in Nat] == IF a < 2 * y THEN 0 ELSE 1 + desce[2 * y]
        e == IF a < b THEN 0 - sobe[a] ELSE desce[b]
        \* the significand is a * 2^(52 - e) / b rounded to an integer
        pot[n \in Nat] == IF n = 0 THEN 1 ELSE (2 * pot[n - 1]) % (2 * b)
        r2 == ((a % (2 * b)) * pot[52 - e]) % (2 * b)
        r == r2 % b
        divisaoParaBaixo == r # 0 /\ (2 * r < b \/ (2 * r = b /\ r2 < b))
    IN IF 2 * resto > b \/ (2 * resto = b /\ ~divisaoParaBaixo) THEN k + 1 ELSE k

\* the for-loop over the sorted events
LoopAnalise(lista) ==
    LET f[i \in 0..Len(lista)] ==
          IF i = 0
          THEN [ultimo |-> [v \in {} |-> 0], detalhes |-> <<>>,
                gasto |-> 0, litros |-> 0, km |-> 0]
          ELSE LET p == f[i - 1]
                   a == lista[i]
                   kmRodados == KmRodadosDe(p.ultimo, a)
               IN [ultimo |-> AtualizaUltimoKm(p.ultimo, a),
                   detalhes |-> Append(p.detalhes,
                       [_id |-> a._id, veiculoId |-> a.veiculoId, data |-> a.data,
                        quilometragemAtual |-> a.quilometragemAtual,
                        litros |-> a.litros, custoTotal |-> a.custoTotal,
                        kmRodados |-> kmRodados,
                        consumoNoTrecho |->
                            IF kmRodados # Null /\ a.litros > 0
                            THEN Arredonda(kmRodados, a.litros, 100) ELSE Null]),
                   gasto |-> p.gasto + a.custoTotal,
                   litros |-> p.litros + a.litros,
                   km |-> SomaKmRodados(p.km, kmRodados, a)]
    IN f[Len(lista)]

AnaliseCombustivel(q, f) ==
    LET doVeiculo == IF q.todos THEN abastecimentos
                     ELSE FindPorVeiculo(abastecimentos, q.veiculoId)
        encontrados == SelectSeq(doVeiculo, LAMBDA a : DataNoFiltro(f, a.data))
        r == LoopAnalise(Ordena(encontrados, "analise"))
    IN [processados |-> r.detalhes,
        detalhes |-> Ordena(r.detalhes, "recente"),
        sumario |->
           [totalGastoCombustivel |-> r.gasto,
            totalLitros |-> r.litros,
            totalKmRodados |-> r.km,
            consumoMedioGeral |-> IF r.litros > 0 /\ r.km > 0
                                  THEN Arredonda(r.km, r.litros, 100) ELSE 0,
            custoMedioPorKm |-> IF r.km > 0 THEN Arredonda(r.gasto, r.km, 100) ELSE 0,
            precoMedioLitro |-> IF r.litros > 0
                                THEN Arredonda(r.gasto, r.litros, 1000) ELSE 0]]

GetAnaliseCombustivel(q) ==
    /\ IF ~q.todos /\ ~IdValido(q.veiculoId)
       THEN resp' = Resposta("analiseCombustivel", 400)
       ELSE \E f \in FiltrosMesAno(q.mes, q.ano) :
               resp' = [Resposta("analiseCombustivel", 200) EXCEPT
                           !.body = AnaliseCombustivel(q, f)]
    /\ UNCHANGED <<emCurso, veiculos, manutencoes, checklists, abastecimentos, multas,
                   nextId, now, excluidos>>

---------------------------------------------------------------------------
(* SpecFuel: the fuel analysis over every small collection of fueling      *)
(* events of two vehicles.                                                 *)

MaxAbast == 3        \* fueling events in the collection

\* the two vehicles the drawn events refer to are stored; event i has _id
\* i + 2, i + 1 liters at 3 per liter
AbastecimentosPossiveis ==
    UNION {[1..n -> [veiculoId : {1, 2}, data : 0..MaxNow, quilometragemAtual : Kms]] :
             n \in 0..MaxAbast}

AbastecimentoSorteado(e, i) ==
    [_id |-> i + 2, veiculoId |-> e.veiculoId,
     veiculoPlaca |-> IF e.veiculoId = 1 THEN <<"A", "1">> ELSE <<"B", "2">>,
     data |-> e.data, quilometragemAtual |-> e.quilometragemAtual,
     litros |-> i + 1, valorPorLitro |-> 3, custoTotal |-> 3 * (i + 1)]

VeiculoSimples(id, placa, km) ==
    [_id |-> id, placa |-> placa, quilometragemAtual |-> km,
     manutencaoInfo |->
        [proxTrocaOleoKm |-> Null, proxTrocaOleoData |-> Null,
         frequenciaChecklistDias |-> Null, dataProxChecklist |-> Null,
         ultimaTrocaOleoKm |-> Null, ultimaTrocaOleoData |-> Null,
         ultimoChecklistData |-> Null]]

InitFuel ==
    /\ veiculos = <<VeiculoSimples(1, <<"A", "1">>, MaxKm),
                    VeiculoSimples(2, <<"B", "2">>, MaxKm)>>
    /\ manutencoes = <<>>
    /\ checklists = <<>>
    /\ multas = <<>>
    /\ \E es \in AbastecimentosPossiveis :
          abastecimentos = [i \in DOMAIN es |-> AbastecimentoSorteado(es[i], i)]
    /\ nextId = MaxAbast + 3
    /\ now = MaxNow
    /\ resp = RespInicial
    /\ excluidos = {}
    /\ emCurso = Livres

QueryVeiculo(todos, id) == [todos |-> todos, veiculoId |-> id, mes |-> Null, ano |-> Null]

NextFuel ==
    \E q \in {QueryVeiculo(TRUE, 0), QueryVeiculo(FALSE, 0),
              QueryVeiculo(FALSE, 1), QueryVeiculo(FALSE, 2)} :
        GetAnaliseCombustivel(q)

SpecFuel == InitFuel /\ [][NextFuel]_vars

QueriesFuel ==
    {QueryVeiculo(TRUE, 0), QueryVeiculo(FALSE, 0),
     QueryVeiculo(FALSE, 1), QueryVeiculo(FALSE, 2)}

RECURSIVE SomaSeq(_)
SomaSeq(s) == IF s = <<>> THEN 0 ELSE s[1] + SomaSeq(Tail(s))

\* the fueling events a query selects
Selecionados(q) ==
    {abastecimentos[i]._id : i \in {j \in DOMAIN abastecimentos :
                                      q.todos \/ abastecimentos[j].veiculoId = q.veiculoId}}

\* the positions before i of events of the vehicle of p[i]
AnterioresDoVeiculo(p, i) == {j \in 1..(i - 1) : p[j].veiculoId = p[i].veiculoId}

MaiorDe(S) == CHOOSE x \in S : \A y \in S : y <= x

\* the trip length the chaining rule gives event i of the processed list p
KmEsperado(p, i) ==
    LET ant == AnterioresDoVeiculo(p, i)
    IN IF ant # {} /\ p[i].quilometragemAtual > p[MaiorDe(ant)].quilometragemAtual
       THEN p[i].quilometragemAtual - p[MaiorDe(ant)].quilometragemAtual
       ELSE Null

\* p is in ascending (vehicleId, date, odometer) order
EmOrdemDeAnalise(p) ==
    \A i, j \in DOMAIN p :
        i < j =>
            \/ p[i].veiculoId < p[j].veiculoId
            \/ /\ p[i].veiculoId = p[j].veiculoId
               /\ \/ p[i].data < p[j].data
                  \/ /\ p[i].data = p[j].data
                     /\ p[i].quilometragemAtual <= p[j].quilometragemAtual

\* C3: the fuel analysis processes the selected events in ascending
\* (vehicleId, date, odometer) order; each event's kmRodados is its odometer
\* minus the odometer of the immediately preceding processed event of the same
\* vehicle when there is one and the reading is strictly greater, and null
\* otherwise, whether or not that preceding event had a trip itself; events
\* of different vehicles are never chained; the response lists the same
\* entries newest first.
C3_TripChaining ==
    [][\A q \in QueriesFuel :
         (GetAnaliseCombustivel(q) /\ (q.todos \/ IdValido(q.veiculoId))) =>
            LET p == resp'.body.processados
                d == resp'.body.detalhes
            IN /\ resp'.status = 200
               /\ Len(p) = Cardinality(Selecionados(q))
               /\ {p[i]._id : i \in DOMAIN p} = Selecionados(q)
               /\ EmOrdemDeAnalise(p)
               /\ \A i \in DOMAIN p : p[i].kmRodados = KmEsperado(p, i)
               /\ \A i \in DOMAIN p :
                     (i > 1 /\ p[i - 1].veiculoId # p[i].veiculoId) =>
                         p[i].kmRodados = Null
               /\ Len(d) = Len(p)
               /\ {d[i] : i \in DOMAIN d} = {p[i] : i \in DOMAIN p}
               /\ \A i, j \in DOMAIN d : i < j => d[i].data >= d[j].data]_vars

\* three events of one vehicle were analysed: the second read less than the
\* first and has no trip, the third chains from the second
C3_Witness ==
    /\ resp.op = "analiseCombustivel"
    /\ resp.status = 200
    /\ \E i \in 3..Len(resp.body.processados) :
          LET p == resp.body.processados
          IN /\ p[i].veiculoId = p[i - 1].veiculoId
             /\ p[i - 1].veiculoId = p[i - 2].veiculoId
             /\ p[i - 1].quilometragemAtual < p[i - 2].quilometragemAtual
             /\ p[i - 1].kmRodados = Null
             /\ p[i].kmRodados = p[i].quilometragemAtual - p[i - 1].quilometragemAtual
             /\ p[i].kmRodados > 0

\* the entries of the response that have a trip
ComTrecho(d) == SelectSeq(d, LAMBDA e : e.kmRodados # Null)

\* C4: an event whose trip is undefined (the first event of a vehicle, or a
\* reading that did not increase) adds nothing to the total cost, the total
\* liters or the total distance of the summary: each of the three totals of
\* a 200 response is the sum over the entries that have a trip.
C4_NoContributionToAnyTotal ==
    (resp.op = "analiseCombustivel" /\ resp.status = 200) =>
        LET d == resp.body.detalhes
            t == ComTrecho(d)
            s == resp.body.sumario
        IN /\ s.totalKmRodados = SomaSeq([i \in DOMAIN t |-> t[i].kmRodados])
           /\ s.totalGastoCombustivel = SomaSeq([i \in DOMAIN t |-> t[i].custoTotal])
           /\ s.totalLitros = SomaSeq([i \in DOMAIN t |-> t[i].litros])

---------------------------------------------------------------------------
(* The Due-Date engine: GET /api/dashboard/stats and                       *)
(* GET /api/manutencoes/proximas                                           *)

\* an instant taken as it is, without going back to midnight
InstanteSemTruncar(t) == t

\* inicioHoje: UTC midnight of the current day
InicioHoje(t) == InicioDoDia(t)

\* tresDiasDepois
TresDiasDepois(t) == MaisDias(InicioHoje(t), 3)

\* the find() of the dashboard: a vehicle with any of the three fields set
ParaAlerta(v) ==
    \/ v.manutencaoInfo.proxTrocaOleoData # Null
    \/ v.manutencaoInfo.proxTrocaOleoKm # Null
    \/ v.manutencaoInfo.dataProxChecklist # Null

\* v.manutencaoInfo.proxTrocaOleoKm && v.quilometragemAtual >= v.manutencaoInfo.proxTrocaOleoKm
VencidoKmOleo(v) ==
    /\ TruthyNum(v.manutencaoInfo.proxTrocaOleoKm)
    /\ JsGe(v.quilometragemAtual, v.manutencaoInfo.proxTrocaOleoKm)

\* the two flags the forEach of the dashboard leaves for vehicle v
FlagsDashboard(v, hoje) ==
    LET mi == v.manutencaoInfo
        temOleo == mi.proxTrocaOleoData # Null
        vencido1 == temOleo /\ mi.proxTrocaOleoData < hoje
        futuro1 == temOleo /\ ~(mi.proxTrocaOleoData < hoje)
        vencido2 == vencido1 \/ VencidoKmOleo(v)
        temCheck == mi.dataProxChecklist # Null
        vencido3 == vencido2 \/ (temCheck /\ mi.dataProxChecklist < hoje)
        futuro3 == futuro1 \/ (temCheck /\ ~(mi.dataProxChecklist < hoje) /\ ~vencido2)
    IN [alertaVencido |-> vencido3, agendamentoFuturo |-> futuro3]

\* the answer: the count taken first, and the two counters the forEach
\* builds from the vehicles found now
DashboardStats(totalVeiculos, hoje) ==
    LET examinados == {i \in DOMAIN veiculos : ParaAlerta(veiculos[i])}
    IN [totalVeiculos |-> totalVeiculos,
        alertasAtivos |->
            Cardinality({i \in examinados :
                            FlagsDashboard(veiculos[i], hoje).alertaVencido}),
        manutencoesAgendadas |->
            Cardinality({i \in examinados :
                            /\ ~FlagsDashboard(veiculos[i], hoje).alertaVencido
                            /\ FlagsDashboard(veiculos[i], hoje).agendamentoFuturo})]

\* the number of answers in a row of route op, this one included
Seguidas(op) == IF resp.op = op THEN resp.n + 1 ELSE 1

\* countDocuments(); the clock is read when it returns
GetDashboardConta(p) ==
    /\ emCurso[p] = Livre
    /\ Seguidas("dashboardStats") <= MaxReq
    /\ Suspende(p, [pc |-> "buscarAlertas", totalVeiculos |-> Len(veiculos),
                    inicioHoje |-> InicioHoje(now)])
    /\ UNCHANGED <<veiculos, manutencoes, checklists, abastecimentos, multas,
                   nextId, now, resp, excluidos>>

\* find({$or: [...]}), the forEach over what it finds, and the answer
GetDashboardStats(p) ==
    /\ emCurso[p].pc = "buscarAlertas"
    /\ resp' = [Resposta("dashboardStats", 200) EXCEPT
                   !.body = DashboardStats(emCurso[p].totalVeiculos,
                                           emCurso[p].inicioHoje),
                   !.n = Seguidas("dashboardStats")]
    /\ Termina(p)
    /\ UNCHANGED <<veiculos, manutencoes, checklists, abastecimentos, multas,
                   nextId, now, excluidos>>

\* statusOleo
StatusOleo(v, hoje) ==
    LET vencidoKm == VencidoKmOleo(v)
        vencidoData == /\ v.manutencaoInfo.proxTrocaOleoData # Null
                       /\ v.manutencaoInfo.proxTrocaOleoData < hoje
    IN IF vencidoKm /\ vencidoData THEN "VENCIDO_DATA_KM"
       ELSE IF vencidoKm THEN "VENCIDO_KM"
       ELSE IF vencidoData THEN "VENCIDO_DATA"
       ELSE "OK"

\* whether the oil entry of v is pushed
MostraOleo(v, hoje) ==
    LET mi == v.manutencaoInfo
    IN /\ TruthyNum(mi.proxTrocaOleoKm) \/ mi.proxTrocaOleoData # Null
       /\ \/ StatusOleo(v, hoje) # "OK"
          \/ mi.proxTrocaOleoData # Null /\ mi.proxTrocaOleoData >= hoje

\* the oil entry; its texts repeat the fields kept here
EventoOleo(v, hoje) ==
    [_id |-> <<v._id, "oleo">>, veiculoId |-> v._id, veiculoPlaca |-> v.placa,
     tipoEvento |-> "OLEO",
     dataPrevista |-> v.manutencaoInfo.proxTrocaOleoData,
     kmPrevisto |-> v.manutencaoInfo.proxTrocaOleoKm,
     kmAtual |-> v.quilometragemAtual,
     statusAlerta |-> StatusOleo(v, hoje)]

\* statusChecklist, for a vehicle with a next checklist date
StatusChecklist(v, t) ==
    LET data == v.manutencaoInfo.dataProxChecklist
    IN IF data < InicioHoje(t) THEN "VENCIDO_DATA"
       ELSE IF data >= InicioHoje(t) /\ data <= TresDiasDepois(t) THEN "AVISO_CHECKLIST"
       ELSE "OK"

MostraChecklist(v, t) ==
    /\ v.manutencaoInfo.dataProxChecklist # Null
    /\ \/ StatusChecklist(v, t) # "OK"
       \/ v.manutencaoInfo.dataProxChecklist >= InicioHoje(t)

\* the checklist entry; the odometer fields it does not carry are null here
EventoChecklist(v, t) ==
    [_id |-> <<v._id, "checklist">>, veiculoId |-> v._id, veiculoPlaca |-> v.placa,
     tipoEvento |-> "CHECKLIST",
     dataPrevista |-> v.manutencaoInfo.dataProxChecklist,
     kmPrevisto |-> Null, kmAtual |-> Null,
     statusAlerta |-> StatusChecklist(v, t)]

\* the entries the forEach pushes, vehicle by vehicle, oil first
RECURSIVE EventosDe(_, _)
EventosDe(vs, t) ==
    IF vs = <<>> THEN <<>>
    ELSE (IF MostraOleo(vs[1], InicioHoje(t))
          THEN <<EventoOleo(vs[1], InicioHoje(t))>> ELSE <<>>)
         \o (IF MostraChecklist(vs[1], t) THEN <<EventoChecklist(vs[1], t)>> ELSE <<>>)
         \o EventosDe(Tail(vs), t)

\* v.quilometragemAtual.toLocaleString() of the oil entry throws on null
LancaErro(t) ==
    \E i \in DOMAIN veiculos :
        /\ MostraOleo(veiculos[i], InicioHoje(t))
        /\ veiculos[i].quilometragemAtual = Null

GetProximas ==
    /\ Seguidas("proximas") <= MaxReq
    /\ IF LancaErro(now)
       THEN resp' = [Resposta("proximas", 500) EXCEPT !.n = Seguidas("proximas")]
       ELSE resp' = [Resposta("proximas", 200) EXCEPT
                        !.body = Ordena(EventosDe(veiculos, now), "proximas"),
                        !.n = Seguidas("proximas")]
    /\ UNCHANGED <<emCurso, veiculos, manutencoes, checklists, abastecimentos, multas,
                   nextId, now, excluidos>>

---------------------------------------------------------------------------
(* SpecDue: the Due-Date engine over every small fleet, while the clock    *)
(* advances and vehicles are edited.                                       *)

\* dates a vehicle may hold: none, the last instant of yesterday, midnight
\* of today
DatasDue == {Null, TicksPerDay - 1, TicksPerDay}

VeiculoDue(id, placa, km, oleoKm, oleoData, dataCheck) ==
    [VeiculoSimples(id, placa, km) EXCEPT
        !.manutencaoInfo.proxTrocaOleoKm = oleoKm,
        !.manutencaoInfo.proxTrocaOleoData = oleoData,
        !.manutencaoInfo.dataProxChecklist = dataCheck]

\* one vehicle of any shape, alone or followed by a second one at MaxKm
FrotasPossiveis ==
    {<<>>}
    \cup {<<VeiculoDue(1, <<"A", "1">>, km, ok, od, dc)>> :
            km \in Kms, ok \in {Null} \cup Kms, od \in DatasDue, dc \in DatasDue}
    \cup {<<VeiculoDue(1, <<"A", "1">>, f[1], f[2], f[3], f[4]),
            VeiculoDue(2, <<"B", "2">>, MaxKm, g[1], g[2], g[3])>> :
            f \in Kms \X ({Null} \cup Kms) \X DatasDue \X DatasDue,
            g \in ({Null} \cup Kms) \X DatasDue \X DatasDue}

InitDue ==
    /\ veiculos \in FrotasPossiveis
    /\ manutencoes = <<>>
    /\ checklists = <<>>
    /\ abastecimentos = <<>>
    /\ multas = <<>>
    /\ nextId = 3
    /\ now = TicksPerDay
    /\ resp = RespInicial
    /\ excluidos = {}
    /\ emCurso = Livres

ReqPutVeiculoDue ==
    {EditBody(FALSE, <<>>, Vazio, Undef, Undef, Undef),
     EditBody(FALSE, <<>>, Undef, Num(0), Undef, Undef)}

NextDue ==
    \/ GetDashboardConta(2)
    \/ GetDashboardStats(2)
    \/ GetProximas
    \/ Tick
    \/ \E d \in ReqPutVeiculoDue : PutVeiculoBusca(1, 1, d)
    \/ PutVeiculoGrava(1)

SpecDue == InitDue /\ [][NextDue]_vars

\* vehicles the claims call overdue on the day that starts at hoje: oil date
\* before today, odometer at or past a set oil threshold, or checklist date
\* before today
Vencido(v, hoje) ==
    LET mi == v.manutencaoInfo
    IN \/ mi.proxTrocaOleoData # Null /\ mi.proxTrocaOleoData < hoje
       \/ mi.proxTrocaOleoKm # Null /\ KmDe(v) >= mi.proxTrocaOleoKm
       \/ mi.dataProxChecklist # Null /\ mi.dataProxChecklist < hoje

\* C5: in the answer of GET /api/dashboard/stats every examined vehicle counts
\* in at most one of alertasAtivos and manutencoesAgendadas, and every vehicle
\* with an overdue condition counts in alertasAtivos and not in
\* manutencoesAgendadas, so the two counters together never exceed the number
\* of vehicles examined.
C5_OverduePrecedence ==
    resp.op = "dashboardStats" =>
        LET hoje == InicioDoDia(resp.em)
            examinados == {i \in DOMAIN veiculos : ParaAlerta(veiculos[i])}
            vencidos == {i \in DOMAIN veiculos : Vencido(veiculos[i], hoje)}
        IN /\ resp.body.alertasAtivos + resp.body.manutencoesAgendadas
                 <= Cardinality(examinados)
           /\ resp.body.alertasAtivos >= Cardinality(vencidos)
           /\ resp.body.manutencoesAgendadas <= Cardinality(examinados \ vencidos)

\* C9: a run of the Due-Date engine changes no stored vehicle or event, and
\* a second run of the same route with no request to another route between
\* the two and on the same day answers with the same status and the same
\* body, entries in the same order.
C9_EngineIdempotent ==
    [][/\ (GetProximas \/ GetDashboardConta(2) \/ GetDashboardStats(2))
             => UNCHANGED <<store, nextId, excluidos>>
       /\ \A op \in {"proximas", "dashboardStats"} :
            (/\ GetProximas \/ GetDashboardStats(2)
             /\ resp.op = op
             /\ resp'.op = op
             /\ InicioDoDia(resp.em) = InicioDoDia(now)) =>
                (resp'.status = resp.status /\ resp'.body = resp.body)]_vars

\* the next-maintenance view answered twice in a row, the second time at a
\* later instant of the day, with an overdue entry ahead of one that is not
C9_Witness ==
    /\ resp.op = "proximas"
    /\ resp.status = 200
    /\ resp.n = 2
    /\ resp.em > TicksPerDay
    /\ Len(resp.body) >= 3
    /\ PrioridadeStatus(resp.body[1].statusAlerta) = 0
    /\ PrioridadeStatus(resp.body[Len(resp.body)].statusAlerta) > 0

\* the oil status the claim gives an entry of the next-maintenance view
StatusOleoEsperado(e, hoje) ==
    LET vencidoKm == e.kmPrevisto # Null /\ ToNumber(e.kmAtual) >= e.kmPrevisto
        vencidoData == e.dataPrevista # Null /\ e.dataPrevista < hoje
    IN IF vencidoKm /\ vencidoData THEN "VENCIDO_DATA_KM"
       ELSE IF vencidoKm THEN "VENCIDO_KM"
       ELSE IF vencidoData THEN "VENCIDO_DATA"
       ELSE "OK"

\* C10: every oil entry of the next-maintenance view is labelled
\* VENCIDO_DATA_KM, VENCIDO_KM, VENCIDO_DATA or OK by the two tests "threshold
\* set and odometer >= threshold" and "date set and before midnight of today",
\* for every set threshold, 0 included.
C10_OilStatusLabel ==
    (resp.op = "proximas" /\ resp.status = 200) =>
        \A i \in DOMAIN resp.body :
            resp.body[i].tipoEvento = "OLEO" =>
                resp.body[i].statusAlerta =
                    StatusOleoEsperado(resp.body[i], InicioDoDia(resp.em))

---------------------------------------------------------------------------
(* GET /api/relatorios/gastos-detalhados *)

\* the vehicle part of a find()
VeiculoNoFiltro(q, d) == q.todos \/ d.veiculoId = q.veiculoId

\* an amount counted whenever it is a number
GastoNumerico(x) == x # Null /\ x # NaN

\* m.custo && m.custo > 0
GastoPositivo(x) == TruthyNum(x) /\ JsGt(x, 0)

TipoPedido(q, tipo) == q.tipoGasto \in {"", "todos", tipo}

GastosManutencao(q, f) ==
    LET achados == SelectSeq(manutencoes, LAMBDA m :
                       VeiculoNoFiltro(q, m) /\ DataNoFiltro(f, m.dataRealizacao))
        pagos == SelectSeq(achados, LAMBDA m : GastoPositivo(m.custo))
    IN [i \in DOMAIN pagos |->
          [tipoGasto |-> "Manutenção", valorGasto |-> pagos[i].custo,
           data |-> pagos[i].dataRealizacao, veiculoId |-> pagos[i].veiculoId,
           veiculoPlaca |-> pagos[i].veiculoPlaca]]

GastosCombustivel(q, f) ==
    LET achados == SelectSeq(abastecimentos, LAMBDA a :
                       VeiculoNoFiltro(q, a) /\ DataNoFiltro(f, a.data))
        pagos == SelectSeq(achados, LAMBDA a : GastoPositivo(a.custoTotal))
    IN [i \in DOMAIN pagos |->
          [tipoGasto |-> "Combustível", valorGasto |-> pagos[i].custoTotal,
           data |-> pagos[i].data, veiculoId |-> pagos[i].veiculoId,
           veiculoPlaca |-> pagos[i].veiculoPlaca]]

\* paid fines placed in time by the date of the infraction
GastosMultaPorInfracao(q, f) ==
    LET achados == SelectSeq(multas, LAMBDA m :
                       /\ VeiculoNoFiltro(q, m)
                       /\ m.statusPagamento = "paga"
                       /\ DataNoFiltro(f, m.dataInfracao))
        pagos == SelectSeq(achados, LAMBDA m : GastoPositivo(m.valor))
    IN [i \in DOMAIN pagos |->
          [tipoGasto |-> "Multa", valorGasto |-> pagos[i].valor,
           data |-> pagos[i].dataInfracao, veiculoId |-> pagos[i].veiculoId,
           veiculoPlaca |-> pagos[i].veiculoPlaca]]

GastosMulta(q, f) ==
    LET achados == SelectSeq(multas, LAMBDA m :
                       /\ VeiculoNoFiltro(q, m)
                       /\ m.statusPagamento = "paga"
                       /\ DataNoFiltro(f, m.dataPagamento))
        pagos == SelectSeq(achados, LAMBDA m : GastoPositivo(m.valor))
    IN [i \in DOMAIN pagos |->
          [tipoGasto |-> "Multa", valorGasto |-> pagos[i].valor,
           data |-> pagos[i].dataPagamento, veiculoId |-> pagos[i].veiculoId,
           veiculoPlaca |-> pagos[i].veiculoPlaca]]

\* totalGastos += ..., entry by entry as pushed
RECURSIVE TotalDe(_)
TotalDe(gastos) ==
    IF gastos = <<>> THEN 0
    ELSE TotalDe(SubSeq(gastos, 1, Len(gastos) - 1)) + gastos[Len(gastos)].valorGasto

\* the handler from one find to the next.  buscas are the collections still
\* to be read: the first of them returns and its entries are pushed with
\* their amounts added to totalGastos; then the next find is issued, or
\* detalhesGastos is sorted and the answer sent.
GastosSegue(p, q, buscas, gastos) ==
    LET f == GetDateQuery(q.dataInicio, q.dataFim)
        achados ==
            IF buscas = <<>> THEN gastos
            ELSE IF Head(buscas) = "Manutenção" THEN gastos \o GastosManutencao(q, f)
            ELSE IF Head(buscas) = "Combustível" THEN gastos \o GastosCombustivel(q, f)
            ELSE gastos \o GastosMulta(q, f)
    IN IF Len(buscas) <= 1
       THEN /\ resp' = [Resposta("gastosDetalhados", 200) EXCEPT
                           !.body = [detalhes |-> Ordena(achados, "recente"),
                                     sumario |-> [totalGastos |-> TotalDe(achados)]]]
            /\ Termina(p)
       ELSE /\ Suspende(p, [pc |-> "buscarGastos", q |-> q,
                            buscas |-> Tail(buscas), gastos |-> achados])
            /\ UNCHANGED resp

\* the request up to the result of its first find; the finds it makes are
\* those of the categories tipoGasto asks for, in this order
GetGastosDetalhados(p, q) ==
    /\ emCurso[p] = Livre
    /\ IF ~q.todos /\ ~IdValido(q.veiculoId)
       THEN resp' = Resposta("gastosDetalhados", 400) /\ Termina(p)
       ELSE GastosSegue(p, q,
                        SelectSeq(<<"Manutenção", "Combustível", "Multa">>,
                                  LAMBDA tipo : TipoPedido(q, tipo)),
                        <<>>)
    /\ UNCHANGED <<veiculos, manutencoes, checklists, abastecimentos, multas,
                   nextId, now, excluidos>>

\* a later find of the request returns
GetGastosBusca(p) ==
    /\ emCurso[p].pc = "buscarGastos"
    /\ GastosSegue(p, emCurso[p].q, emCurso[p].buscas, emCurso[p].gastos)
    /\ UNCHANGED <<veiculos, manutencoes, checklists, abastecimentos, multas,
                   nextId, now, excluidos>>

---------------------------------------------------------------------------
(* SpecGastos: the detailed expense report over every small set of stored  *)
(* maintenance events, fueling events and fines of two vehicles.           *)

MaxGastos == 3       \* stored events, the three collections together

PlacaDe(vid) == IF vid = 1 THEN <<"A", "1">> ELSE <<"B", "2">>

\* stored dates: the last instant of day 0 and midnight of day 1
DatasGasto == {TicksPerDay - 1, TicksPerDay}

\* a maintenance event without cost, with a negative cost, with a cost
ManutencoesPossiveis ==
    {[_id |-> 0, veiculoId |-> v, veiculoPlaca |-> PlacaDe(v),
      tipoManutencao |-> "Freios", dataRealizacao |-> d, custo |-> c,
      quilometragem |-> Null] :
        v \in {1, 2}, d \in DatasGasto, c \in {Null, 0 - 3, 2}}

\* a fueling event given a total cost of "0" or left to liters * price
AbastecimentosDeGasto ==
    {[_id |-> 0, veiculoId |-> v, veiculoPlaca |-> PlacaDe(v), data |-> d,
      quilometragemAtual |-> 1, litros |-> 1, valorPorLitro |-> 3, custoTotal |-> c] :
        v \in {1, 2}, d \in DatasGasto, c \in {0, 3}}

\* a fine whose amount did not parse or did, paid or pending
MultasPossiveis ==
    {[_id |-> 0, veiculoId |-> v, veiculoPlaca |-> PlacaDe(v), dataInfracao |-> 0,
      valor |-> c, statusPagamento |-> st,
      dataPagamento |-> IF st = "paga" THEN d ELSE Null] :
        v \in {1, 2}, d \in DatasGasto, c \in {NaN, 1}, st \in {"paga", "pendente"}}

ComIds(col, base) == [i \in DOMAIN col |-> [col[i] EXCEPT !._id = base + i]]

InitGastos ==
    /\ veiculos = <<VeiculoSimples(1, PlacaDe(1), 1), VeiculoSimples(2, PlacaDe(2), 1)>>
    /\ checklists = <<>>
    /\ \E nm \in 0..MaxGastos :
         \E na \in 0..(MaxGastos - nm) :
           \E nf \in 0..(MaxGastos - nm - na) :
             /\ \E m \in [1..nm -> ManutencoesPossiveis] : manutencoes = ComIds(m, 2)
             /\ \E a \in [1..na -> AbastecimentosDeGasto] :
                   abastecimentos = ComIds(a, 2 + nm)
             /\ \E f \in [1..nf -> MultasPossiveis] : multas = ComIds(f, 2 + nm + na)
    /\ nextId = MaxGastos + 3
    /\ now = TicksPerDay
    /\ resp = RespInicial
    /\ excluidos = {}
    /\ emCurso = Livres

QueriesGastos ==
    [todos : {FALSE}, veiculoId : {0, 1}, dataInicio : {Null, 1}, dataFim : {Null, 0},
     tipoGasto : {"", "Manutenção", "Combustível", "Multa", "Outro"}]
    \cup [todos : {TRUE}, veiculoId : {0}, dataInicio : {Null, 1}, dataFim : {Null, 0, 1},
          tipoGasto : {"todos", "Multa"}]

\* the report is read while the first maintenance event may be deleted
NextGastos ==
    \/ \E q \in QueriesGastos : GetGastosDetalhados(1, q)
    \/ GetGastosBusca(1)
    \/ DeleteManutencao(3)

SpecGastos == InitGastos /\ [][NextGastos]_vars

\* C6: whatever is stored and whatever the vehicle, date-range and category
\* filters are, the total of the detailed expense report is the sum of the
\* amounts of its entries, and every entry has an amount that is a number
\* greater than zero.
C6_ExpenseTotals ==
    (resp.op = "gastosDetalhados" /\ resp.status = 200) =>
        LET d == resp.body.detalhes
        IN /\ resp.body.sumario.totalGastos = SomaSeq([i \in DOMAIN d |-> d[i].valorGasto])
           /\ \A i \in DOMAIN d :
                /\ d[i].valorGasto # Null
                /\ d[i].valorGasto # NaN
                /\ d[i].valorGasto > 0

\* a report of two entries with a total, while a stored event the filters
\* select has a negative amount
C6_Witness ==
    /\ resp.op = "gastosDetalhados"
    /\ resp.status = 200
    /\ Len(resp.body.detalhes) = 2
    /\ resp.body.detalhes[1].tipoGasto # resp.body.detalhes[2].tipoGasto
    /\ resp.body.sumario.totalGastos > resp.body.detalhes[1].valorGasto
    /\ \E i \in DOMAIN manutencoes :
          /\ manutencoes[i].custo < 0
          /\ manutencoes[i].custo # Null
          /\ \A j \in DOMAIN resp.body.detalhes :
                resp.body.detalhes[j].veiculoId = manutencoes[i].veiculoId

---------------------------------------------------------------------------
(* SpecAgenda: the next-maintenance view over fleets whose checklist dates *)
(* lie on both sides of today and of the third day after it.               *)

\* checklist dates: none, the last instant of yesterday, midnight of today,
\* midnight of the third day after today, one instant into that day,
\* midnight of the fourth day
DatasChecklist ==
    {Null, TicksPerDay - 1, TicksPerDay, MaisDias(TicksPerDay, 3),
     MaisDias(TicksPerDay, 3) + 1, MaisDias(TicksPerDay, 4)}

\* vehicles at MaxKm with the oil threshold unset or reached, the oil date
\* unset, yesterday or today, and any checklist date
VeiculosDaAgenda(id) ==
    {VeiculoDue(id, PlacaDe(id), MaxKm, ok, od, dc) :
        ok \in {Null, MaxKm}, od \in DatasDue, dc \in DatasChecklist}

FrotasDaAgenda ==
    {<<>>} \cup {<<v>> : v \in VeiculosDaAgenda(1)}
    \cup {<<v, w>> : v \in VeiculosDaAgenda(1), w \in VeiculosDaAgenda(2)}

InitAgenda ==
    /\ veiculos \in FrotasDaAgenda
    /\ manutencoes = <<>>
    /\ checklists = <<>>
    /\ abastecimentos = <<>>
    /\ multas = <<>>
    /\ nextId = 3
    /\ now = TicksPerDay
    /\ resp = RespInicial
    /\ excluidos = {}
    /\ emCurso = Livres

NextAgenda ==
    \/ GetProximas
    \/ Tick

SpecAgenda == InitAgenda /\ [][NextAgenda]_vars

\* the checklist status by calendar day: overdue before today, due soon on
\* any instant of today up to the end of the third day after it
StatusChecklistPorDia(data, hoje) ==
    IF data < hoje THEN "VENCIDO_DATA"
    ELSE IF InicioDoDia(data) <= MaisDias(hoje, 3) THEN "AVISO_CHECKLIST"
    ELSE "OK"

ItensChecklistDe(body, vid) ==
    {i \in DOMAIN body : body[i].tipoEvento = "CHECKLIST" /\ body[i].veiculoId = vid}

\* C11: in the answer of the next-maintenance view every vehicle with a
\* dataProxChecklist has status VENCIDO_DATA iff the date is before UTC
\* midnight of today, AVISO_CHECKLIST iff the date lies anywhere within today
\* through the third day after today, and OK otherwise; its checklist entry
\* is listed iff the status is not OK or the date is today or later.
C11_ChecklistStatus ==
    (resp.op = "proximas" /\ resp.status = 200) =>
        \A k \in DOMAIN veiculos :
            LET v == veiculos[k]
                data == v.manutencaoInfo.dataProxChecklist
                hoje == InicioDoDia(resp.em)
                esperado == StatusChecklistPorDia(data, hoje)
                itens == ItensChecklistDe(resp.body, v._id)
            IN IF data # Null /\ (esperado # "OK" \/ data >= hoje)
               THEN /\ Cardinality(itens) = 1
                    /\ \A i \in itens : resp.body[i].statusAlerta = esperado
               ELSE itens = {}

\* C12: the next-maintenance list has every VENCIDO entry before every
\* AVISO_CHECKLIST entry and those before every other entry; inside one
\* priority the dated entries are in ascending order of date and the entries
\* without a date come after them.
C12_ListOrder ==
    (resp.op = "proximas" /\ resp.status = 200) =>
        \A i, j \in DOMAIN resp.body :
            i < j =>
                LET a == resp.body[i]
                    b == resp.body[j]
                    pa == IF a.statusAlerta \in {"VENCIDO_DATA_KM", "VENCIDO_KM", "VENCIDO_DATA"}
                          THEN 0 ELSE IF a.statusAlerta = "AVISO_CHECKLIST" THEN 1 ELSE 2
                    pb == IF b.statusAlerta \in {"VENCIDO_DATA_KM", "VENCIDO_KM", "VENCIDO_DATA"}
                          THEN 0 ELSE IF b.statusAlerta = "AVISO_CHECKLIST" THEN 1 ELSE 2
                IN /\ pa <= pb
                   /\ pa = pb =>
                        /\ a.dataPrevista = Null => b.dataPrevista = Null
                        /\ (a.dataPrevista # Null /\ b.dataPrevista # Null) =>
                               a.dataPrevista <= b.dataPrevista

\* a list of four entries pushed in another order than the one answered:
\* a dated overdue entry, an overdue entry without a date, a due-soon
\* checklist and a later one that is OK
C12_Witness ==
    /\ resp.op = "proximas"
    /\ resp.status = 200
    /\ Len(resp.body) = 4
    /\ resp.body # EventosDe(veiculos, resp.em)
    /\ resp.body[1].statusAlerta = "VENCIDO_DATA"
    /\ resp.body[2].statusAlerta = "VENCIDO_KM"
    /\ resp.body[2].dataPrevista = Null
    /\ resp.body[3].statusAlerta = "AVISO_CHECKLIST"
    /\ resp.body[4].statusAlerta = "OK"

---------------------------------------------------------------------------
(* SpecPeriodo: the fuel analysis asked for a month and a year, over        *)
(* fueling events dated at the first and last instants of year 1 and of    *)
(* its months.                                                             *)

DatasPeriodo ==
    {InicioDoAno(1) - 1, InicioDoAno(1), InicioDoMes(1, 2) - 1, InicioDoMes(1, 2),
     InicioDoAno(2) - 1, InicioDoAno(2)}

InitPeriodo ==
    /\ veiculos = <<VeiculoSimples(1, PlacaDe(1), MaxKm), VeiculoSimples(2, PlacaDe(2), MaxKm)>>
    /\ manutencoes = <<>>
    /\ checklists = <<>>
    /\ multas = <<>>
    /\ \E n \in 0..MaxAbast :
         \E ds \in [1..n -> DatasPeriodo] :
            abastecimentos =
                [i \in 1..n |->
                    AbastecimentoSorteado(
                        [veiculoId |-> 1, data |-> ds[i], quilometragemAtual |-> MaxKm], i)]
    /\ nextId = MaxAbast + 3
    /\ now = InicioDoAno(2)
    /\ resp = RespInicial
    /\ excluidos = {}
    /\ emCurso = Livres

QueriesPeriodo ==
    [todos : {TRUE}, veiculoId : {0}, mes : {Null, 1, 2}, ano : {Null, 1}]

NextPeriodo == \E q \in QueriesPeriodo : GetAnaliseCombustivel(q)

SpecPeriodo == InitPeriodo /\ [][NextPeriodo]_vars

\* the range a month and a year stand for: everything without a year, the
\* whole year without a month, the calendar month with both
NoPeriodo(mes, ano, d) ==
    IF ano = Null THEN TRUE
    ELSE IF mes = Null THEN d >= InicioDoAno(ano) /\ d <= InicioDoAno(ano + 1) - 1
    ELSE d >= InicioDoMes(ano, mes) /\ d <= InicioDoMes(ano, mes + 1) - 1

\* C13: a report asked for (mes, ano) selects every event when no year is
\* given, the events from the first to the last instant of the year when a
\* year is given without a month, and the events from the first to the last
\* instant of the calendar month when both are given, and no other event.
C13_MonthYearRange ==
    [][\A q \in QueriesPeriodo :
         GetAnaliseCombustivel(q) =>
            {resp'.body.processados[i]._id : i \in DOMAIN resp'.body.processados}
              = {abastecimentos[i]._id :
                    i \in {j \in DOMAIN abastecimentos :
                             NoPeriodo(q.mes, q.ano, abastecimentos[j].data)}}]_vars

---------------------------------------------------------------------------
(* POST /api/multas, PUT /api/multas/:id, DELETE /api/multas/:id *)

\* !dataInfracao || !descricao || !valor || !statusPagamento (a missing
\* veiculoId is answered like an invalid one)
MultaIncompleta(b) ==
    \/ ~b.camposOk
    \/ ~Truthy(b.valor)
    \/ b.statusPagamento = ""

\* a payment date kept whenever one was supplied, whatever the status
DataPagamentoSempre(b) ==
    IF Truthy(b.dataPagamento) THEN DataGravada(b.dataPagamento)
    ELSE IF b.statusPagamento = "paga" THEN now ELSE Null

\* dataPagamento of novaMulta and of dadosAtualizados: the supplied date of
\* a paid fine, the current instant for a paid fine without one, null for
\* every other status
DataPagamentoDe(b) ==
    IF b.statusPagamento = "paga"
    THEN IF Truthy(b.dataPagamento) THEN DataGravada(b.dataPagamento) ELSE now
    ELSE Null

CamposDaMulta(b, veiculo) ==
    [veiculoId |-> b.veiculoId,
     veiculoPlaca |-> veiculo.placa,
     dataInfracao |-> DataGravada(b.dataInfracao),
     valor |-> ParseNum(b.valor),
     statusPagamento |-> b.statusPagamento,
     dataPagamento |-> DataPagamentoDe(b)]

NovaMulta(b, veiculo) ==
    LET c == CamposDaMulta(b, veiculo)
    IN [_id |-> nextId, veiculoId |-> c.veiculoId, veiculoPlaca |-> c.veiculoPlaca,
        dataInfracao |-> c.dataInfracao, valor |-> c.valor,
        statusPagamento |-> c.statusPagamento, dataPagamento |-> c.dataPagamento]

\* a fine stored for whatever vehicle id the request names
PostMultaSemBusca(p, b) ==
    /\ emCurso[p] = Livre
    /\ nextId <= MaxIds
    /\ IF MultaIncompleta(b) \/ ~IdValido(b.veiculoId)
       THEN resp' = Resposta("postMulta", 400) /\ Termina(p)
       ELSE /\ Suspende(p, [pc |-> "inserirMulta", b |-> b,
                            lido |-> [placa |-> NullTxt],
                            novo |-> NovaMulta(b, [placa |-> NullTxt])])
            /\ UNCHANGED resp
    /\ UNCHANGED <<veiculos, manutencoes, checklists, abastecimentos, multas,
                   nextId, now, excluidos>>

\* the 400 checks and findOne of the vehicle; novaMulta is built right after
PostMultaBusca(p, b) ==
    /\ emCurso[p] = Livre
    /\ nextId <= MaxIds
    /\ IF MultaIncompleta(b) \/ ~IdValido(b.veiculoId)
       THEN resp' = Resposta("postMulta", 400) /\ Termina(p)
       ELSE IF ~Existe(veiculos, b.veiculoId)
       THEN resp' = Resposta("postMulta", 404) /\ Termina(p)
       ELSE /\ Suspende(p, [pc |-> "inserirMulta", b |-> b,
                            lido |-> FindOne(veiculos, b.veiculoId),
                            novo |-> NovaMulta(b, FindOne(veiculos, b.veiculoId))])
            /\ UNCHANGED resp
    /\ UNCHANGED <<veiculos, manutencoes, checklists, abastecimentos, multas,
                   nextId, now, excluidos>>

PostMultaInsere(p) ==
    /\ emCurso[p].pc = "inserirMulta"
    /\ nextId <= MaxIds
    /\ multas' = Append(multas, [emCurso[p].novo EXCEPT !._id = nextId])
    /\ nextId' = nextId + 1
    /\ resp' = Resposta("postMulta", 201)
    /\ Termina(p)
    /\ UNCHANGED <<veiculos, manutencoes, checklists, abastecimentos, now, excluidos>>

\* $set: dadosAtualizados, held in c, written over the stored fine m
MultaEditada(m, c) ==
    [m EXCEPT !.veiculoId = c.veiculoId, !.veiculoPlaca = c.veiculoPlaca,
              !.dataInfracao = c.dataInfracao, !.valor = c.valor,
              !.statusPagamento = c.statusPagamento,
              !.dataPagamento = c.dataPagamento]

\* the 400 checks and findOne of the vehicle; dadosAtualizados is built
\* right after
PutMultaBusca(p, id, b) ==
    /\ emCurso[p] = Livre
    /\ IF ~IdValido(id) \/ MultaIncompleta(b) \/ ~IdValido(b.veiculoId)
       THEN resp' = Resposta("putMulta", 400) /\ Termina(p)
       ELSE IF ~Existe(veiculos, b.veiculoId)
       THEN resp' = Resposta("putMulta", 404) /\ Termina(p)
       ELSE /\ Suspende(p, [pc |-> "gravarMulta", id |-> id, b |-> b,
                            campos |-> CamposDaMulta(b, FindOne(veiculos, b.veiculoId))])
            /\ UNCHANGED resp
    /\ UNCHANGED <<veiculos, manutencoes, checklists, abastecimentos, multas,
                   nextId, now, excluidos>>

\* updateOne({_id}, {$set: dadosAtualizados}); 404 when matchedCount is 0
PutMultaGrava(p) ==
    /\ emCurso[p].pc = "gravarMulta"
    /\ IF ~Existe(multas, emCurso[p].id)
       THEN /\ resp' = Resposta("putMulta", 404)
            /\ UNCHANGED multas
       ELSE /\ multas' = UpdateOne(multas, emCurso[p].id,
                            MultaEditada(FindOne(multas, emCurso[p].id), emCurso[p].campos))
            /\ resp' = Resposta("putMulta", 200)
    /\ Termina(p)
    /\ UNCHANGED <<veiculos, manutencoes, checklists, abastecimentos, nextId, now,
                   excluidos>>

DeleteMulta(id) ==
    /\ IF ~IdValido(id)
       THEN /\ resp' = Resposta("deleteMulta", 400)
            /\ UNCHANGED multas
       ELSE IF ~Existe(multas, id)
       THEN /\ resp' = Resposta("deleteMulta", 404)
            /\ UNCHANGED multas
       ELSE /\ multas' = DeleteOne(multas, id)
            /\ resp' = Resposta("deleteMulta", 200)
    /\ UNCHANGED <<emCurso, veiculos, manutencoes, checklists, abastecimentos,
                   nextId, now, excluidos>>

(* Fines of a fleet of one vehicle *)

MultaBody(veiculoId, camposOk, valor, status, dataPagamento) ==
    [veiculoId |-> veiculoId, camposOk |-> camposOk,
     dataInfracao |-> Str(0), valor |-> valor,
     statusPagamento |-> status, dataPagamento |-> dataPagamento]

ReqMulta ==
    {MultaBody(v, TRUE, Num(1), st, d) :
        v \in {IdInvalido, 1, MaxIds + 1},
        st \in {"paga", "pendente"},
        d \in {Undef, Str(0), TextoSemData}}
    \cup {MultaBody(1, FALSE, Num(1), "paga", Undef),
          MultaBody(1, TRUE, Undef, "paga", Undef),
          MultaBody(1, TRUE, Num(1), "", Str(0))}

InitMultas ==
    /\ veiculos = <<VeiculoSimples(1, <<"A", "1">>, 0)>>
    /\ manutencoes = <<>>
    /\ checklists = <<>>
    /\ abastecimentos = <<>>
    /\ multas = <<>>
    /\ nextId = 2
    /\ now = TicksPerDay
    /\ resp = RespInicial
    /\ excluidos = {}
    /\ emCurso = Livres

\* the requests a second client sends while the first one is being served
ReqMultaEmParalelo ==
    {MultaBody(1, TRUE, Num(1), "paga", Undef),
     MultaBody(1, TRUE, Num(1), "pendente", Str(0))}

NextMultas ==
    \/ \E b \in ReqMulta : PostMultaBusca(1, b)
    \/ \E b \in ReqMultaEmParalelo : PostMultaBusca(2, b)
    \/ \E p \in Pedidos : PostMultaInsere(p)
    \/ \E id \in IdsPedidos, b \in ReqMulta : PutMultaBusca(1, id, b)
    \/ \E id \in Ids, b \in ReqMultaEmParalelo : PutMultaBusca(2, id, b)
    \/ \E p \in Pedidos : PutMultaGrava(p)
    \/ \E id \in IdsPedidos : DeleteMulta(id)
    \/ Tick

SpecMultas == InitMultas /\ [][NextMultas]_vars

MultaDe(col, id) == FindOne(col, id)

\* C14: after any sequence of fine creations and updates every stored fine
\* has a non-null dataPagamento exactly when its statusPagamento is 'paga';
\* a paid fine created or updated without a date holds the instant at which
\* the handler built it, and a fine written with any other status holds
\* null even when the request supplied a date.
C14_PaidIffDated ==
    /\ [](\A i \in DOMAIN multas :
            (multas[i].dataPagamento # Null) <=> (multas[i].statusPagamento = "paga"))
    /\ [][\A p \in Pedidos :
            /\ emCurso[p] = Livre /\ emCurso'[p] # Livre =>
                 LET b == emCurso'[p].b
                     feito == IF emCurso'[p].pc = "inserirMulta"
                              THEN emCurso'[p].novo ELSE emCurso'[p].campos
                 IN /\ emCurso'[p].pc \in {"inserirMulta", "gravarMulta"}
                    /\ b.statusPagamento = "paga" /\ b.dataPagamento = Undef
                          => feito.dataPagamento = now
            /\ emCurso[p].pc = "inserirMulta" /\ PostMultaInsere(p) =>
                 LET m == multas'[Len(multas')]
                     b == emCurso[p].b
                 IN /\ resp'.status = 201
                    /\ Len(multas') = Len(multas) + 1
                    /\ b.statusPagamento = "paga" /\ b.dataPagamento = Undef
                          => m.dataPagamento = emCurso[p].novo.dataPagamento
                    /\ b.statusPagamento # "paga" => m.dataPagamento = Null
            /\ emCurso[p].pc = "gravarMulta" /\ PutMultaGrava(p)
                  /\ resp'.status = 200 =>
                 LET m == MultaDe(multas', emCurso[p].id)
                     b == emCurso[p].b
                 IN /\ b.statusPagamento = "paga" /\ b.dataPagamento = Undef
                          => m.dataPagamento = emCurso[p].campos.dataPagamento
                    /\ b.statusPagamento # "paga" => m.dataPagamento = Null]_vars

\* a fine created as paid without a date and then updated to a non-paid
\* status with a date supplied, next to a fine paid at a later instant
C14_Witness ==
    /\ resp.op = "putMulta" /\ resp.status = 200
    /\ Len(multas) = 2
    /\ multas[1].statusPagamento = "pendente" /\ multas[1].dataPagamento = Null
    /\ multas[2].statusPagamento = "paga" /\ multas[2].dataPagamento > TicksPerDay

---------------------------------------------------------------------------
(* GET /api/relatorios/gastos-mensais *)

\* getUTCFullYear and getUTCMonth (from 0) of a stored date
AnoDe(d) == d \div InicioDoAno(1)
MesDe(d) == (d % InicioDoAno(1)) \div (DiasPorMes * TicksPerDay)

\* a year that runs up to and including the first instant of the next one
DataAteOAnoSeguinte(ano, d) ==
    d # Null /\ d >= InicioDoAno(ano) /\ d <= InicioDoAno(ano + 1)

\* { $gte: Date.UTC(ano, 0, 1), $lt: Date.UTC(ano + 1, 0, 1) }
DataNoAno(ano, d) == d # Null /\ d >= InicioDoAno(ano) /\ d < InicioDoAno(ano + 1)

\* { $gt: 0 } on a stored amount
MaiorQueZero(x) == x # Null /\ x # NaN /\ x > 0

\* forEach(x => data[getUTCMonth(x.date)] += x.amount) over what was found
DadosPorMes(achados) ==
    [mes \in 0..(MesesPorAno - 1) |->
        SomaSeq([i \in DOMAIN achados |->
                    IF MesDe(achados[i].data) = mes THEN achados[i].valor ELSE 0])]

ManutencoesDoAno(q, ano) ==
    LET achados == SelectSeq(manutencoes, LAMBDA m :
                       /\ VeiculoNoFiltro(q, m)
                       /\ DataNoAno(ano, m.dataRealizacao)
                       /\ MaiorQueZero(m.custo))
    IN [i \in DOMAIN achados |->
          [data |-> achados[i].dataRealizacao, valor |-> achados[i].custo]]

AbastecimentosDoAno(q, ano) ==
    LET achados == SelectSeq(abastecimentos, LAMBDA a :
                       /\ VeiculoNoFiltro(q, a)
                       /\ DataNoAno(ano, a.data)
                       /\ MaiorQueZero(a.custoTotal))
    IN [i \in DOMAIN achados |->
          [data |-> achados[i].data, valor |-> achados[i].custoTotal]]

MultasDoAno(q, ano) ==
    LET achados == SelectSeq(multas, LAMBDA m :
                       /\ VeiculoNoFiltro(q, m)
                       /\ m.statusPagamento = "paga"
                       /\ DataNoAno(ano, m.dataPagamento)
                       /\ MaiorQueZero(m.valor))
    IN [i \in DOMAIN achados |->
          [data |-> achados[i].dataPagamento, valor |-> achados[i].valor]]

\* ano ? parseInt(ano) : new Date().getFullYear()
AnoAtual(q) == IF q.ano = Null THEN AnoDe(now) ELSE q.ano

\* the request up to the point where its first find is issued: the year is
\* taken, from the clock when the query has none
GetGastosMensaisEntra(p, q) ==
    /\ emCurso[p] = Livre
    /\ IF AnoAtual(q) = NaN \/ (~q.todos /\ ~IdValido(q.veiculoId))
       THEN resp' = Resposta("gastosMensais", 400) /\ Termina(p)
       ELSE /\ Suspende(p, [pc |-> "mensalManutencoes", q |-> q, ano |-> AnoAtual(q)])
            /\ UNCHANGED resp
    /\ UNCHANGED <<veiculos, manutencoes, checklists, abastecimentos, multas,
                   nextId, now, excluidos>>

\* find on manutencoes and the forEach that fills manutencaoData
GetGastosMensaisManutencoes(p) ==
    /\ emCurso[p].pc = "mensalManutencoes"
    /\ Suspende(p, [pc |-> "mensalAbastecimentos", q |-> emCurso[p].q,
                    ano |-> emCurso[p].ano,
                    manutencao |->
                       DadosPorMes(ManutencoesDoAno(emCurso[p].q, emCurso[p].ano))])
    /\ UNCHANGED <<veiculos, manutencoes, checklists, abastecimentos, multas,
                   nextId, now, resp, excluidos>>

\* find on abastecimentos and the forEach that fills combustivelData
GetGastosMensaisAbastecimentos(p) ==
    /\ emCurso[p].pc = "mensalAbastecimentos"
    /\ Suspende(p, [pc |-> "mensalMultas", q |-> emCurso[p].q, ano |-> emCurso[p].ano,
                    manutencao |-> emCurso[p].manutencao,
                    combustivel |->
                       DadosPorMes(AbastecimentosDoAno(emCurso[p].q, emCurso[p].ano))])
    /\ UNCHANGED <<veiculos, manutencoes, checklists, abastecimentos, multas,
                   nextId, now, resp, excluidos>>

\* find on multas, the forEach that fills multasData, and the answer
GetGastosMensais(p) ==
    /\ emCurso[p].pc = "mensalMultas"
    /\ resp' = [Resposta("gastosMensais", 200) EXCEPT
                   !.body = [manutencao |-> emCurso[p].manutencao,
                             combustivel |-> emCurso[p].combustivel,
                             multas |-> DadosPorMes(MultasDoAno(emCurso[p].q,
                                                                emCurso[p].ano))]]
    /\ Termina(p)
    /\ UNCHANGED <<veiculos, manutencoes, checklists, abastecimentos, multas,
                   nextId, now, excluidos>>

(* Both expense reports over fines whose infraction and payment fall in   *)
(* different months and years.                                            *)

\* the second day of a month, mes counted from 1
SegundoDia(ano, mes) == InicioDoMes(ano, mes) + TicksPerDay

StatusDeMulta == {"paga", "pendente", "recorrendo", "cancelada"}

MultasDoRelatorio ==
    {[_id |-> 0, veiculoId |-> v, veiculoPlaca |-> PlacaDe(v),
      dataInfracao |-> di, valor |-> 1, statusPagamento |-> st,
      dataPagamento |-> IF st = "paga" THEN dp ELSE Null] :
        v \in {1, 2},
        di \in {SegundoDia(0, 1), SegundoDia(1, MesesPorAno)},
        st \in StatusDeMulta,
        dp \in {SegundoDia(0, MesesPorAno), SegundoDia(1, 1)}}

OutrosGastos ==
    {[_id |-> 0, veiculoId |-> 1, veiculoPlaca |-> PlacaDe(1),
      tipoManutencao |-> "Freios", dataRealizacao |-> SegundoDia(0, 1), custo |-> 2,
      quilometragem |-> Null]}

OutrosAbastecimentos ==
    {[_id |-> 0, veiculoId |-> 1, veiculoPlaca |-> PlacaDe(1),
      data |-> SegundoDia(1, 1), quilometragemAtual |-> 1, litros |-> 1,
      valorPorLitro |-> 3, custoTotal |-> 3]}

InitRelatorios ==
    /\ veiculos = <<VeiculoSimples(1, PlacaDe(1), 1), VeiculoSimples(2, PlacaDe(2), 1)>>
    /\ checklists = <<>>
    /\ \E nm \in 0..1 : \E m \in [1..nm -> OutrosGastos] : manutencoes = ComIds(m, 2)
    /\ \E na \in 0..1 : \E a \in [1..na -> OutrosAbastecimentos] :
          abastecimentos = ComIds(a, 3)
    /\ \E nf \in 0..2 : \E f \in [1..nf -> MultasDoRelatorio] : multas = ComIds(f, 4)
    /\ nextId = 7
    /\ now = InicioDoAno(1)
    /\ resp = RespInicial
    /\ excluidos = {}
    /\ emCurso = Livres

\* day numbers of the first and last day of a year
PrimeiroDiaDoAno(ano) == ano * MesesPorAno * DiasPorMes
UltimoDiaDoAno(ano) == PrimeiroDiaDoAno(ano + 1) - 1

QueriesLedger ==
    [todos : {TRUE}, veiculoId : {0},
     dataInicio : {Null, PrimeiroDiaDoAno(0), PrimeiroDiaDoAno(1)},
     dataFim : {Null, PrimeiroDiaDoAno(0) + DiasPorMes - 1, UltimoDiaDoAno(0)},
     tipoGasto : {"todos", "Multa"}]
    \cup [todos : {FALSE}, veiculoId : {IdInvalido, 1}, dataInicio : {Null},
          dataFim : {Null, UltimoDiaDoAno(0)}, tipoGasto : {"Multa"}]

QueriesMensais ==
    [todos : {TRUE}, veiculoId : {0}, ano : {Null, NaN, 0, 1}]
    \cup [todos : {FALSE}, veiculoId : {IdInvalido, 1}, ano : {0}]

NextRelatorios ==
    \/ \E q \in QueriesLedger : GetGastosDetalhados(1, q)
    \/ GetGastosBusca(1)
    \/ \E q \in QueriesMensais : GetGastosMensaisEntra(1, q)
    \/ GetGastosMensaisManutencoes(1)
    \/ GetGastosMensaisAbastecimentos(1)
    \/ GetGastosMensais(1)

SpecRelatorios == InitRelatorios /\ [][NextRelatorios]_vars

\* the day range a ledger query asks for
NoIntervalo(q, d) ==
    /\ q.dataInicio # Null => d # Null /\ d >= q.dataInicio * TicksPerDay
    /\ q.dataFim # Null => d # Null /\ d < (q.dataFim + 1) * TicksPerDay

\* the stored fines of the vehicles asked for that are paid, for an amount
PagasDe(q) ==
    SelectSeq(multas, LAMBDA m :
        (q.todos \/ m.veiculoId = q.veiculoId)
        /\ m.statusPagamento = "paga" /\ m.valor > 0)

SoMultas(detalhes) == SelectSeq(detalhes, LAMBDA g : g.tipoGasto = "Multa")

\* the fines of a detailed report answered to query q
MultasNoLedger(q) ==
    LET contam == SelectSeq(PagasDe(q), LAMBDA m : NoIntervalo(q, m.dataPagamento))
        ledger == SoMultas(resp'.body.detalhes)
    IN /\ Len(ledger) = Len(contam)
       /\ SomaSeq([i \in DOMAIN ledger |-> ledger[i].valorGasto])
             = SomaSeq([i \in DOMAIN contam |-> contam[i].valor])
       /\ \A i \in DOMAIN ledger :
             \E j \in DOMAIN contam :
                /\ ledger[i].data = contam[j].dataPagamento
                /\ ledger[i].veiculoId = contam[j].veiculoId
       /\ q.tipoGasto = "Multa" =>
             resp'.body.sumario.totalGastos
                = SomaSeq([i \in DOMAIN contam |-> contam[i].valor])

\* the fine buckets of a monthly report answered to query q
MultasPorMes(q) ==
    \A mes \in 0..(MesesPorAno - 1) :
       resp'.body.multas[mes] =
          LET contam == SelectSeq(PagasDe(q), LAMBDA m :
                           /\ AnoDe(m.dataPagamento) = AnoAtual(q)
                           /\ MesDe(m.dataPagamento) = mes)
          IN SomaSeq([i \in DOMAIN contam |-> contam[i].valor])

\* C15: in the detailed and in the monthly expense report, answered over a
\* store that is not written meanwhile, a fine counts only while its status
\* is 'paga', and the range filter and the month bucket go by its payment
\* date, never by its infraction date; a pending, recurring or cancelled
\* fine adds nothing.
C15_PaidFinesByPaymentDate ==
    [][/\ \A q \in QueriesLedger :
            (/\ emCurso[1] = Livre /\ emCurso'[1] = Livre
             /\ resp'.op = "gastosDetalhados" /\ resp'.status = 200
             /\ GetGastosDetalhados(1, q)) => MultasNoLedger(q)
       /\ (emCurso[1].pc = "buscarGastos" /\ emCurso'[1] = Livre /\ GetGastosBusca(1))
             => MultasNoLedger(emCurso[1].q)
       /\ (emCurso[1].pc = "mensalMultas" /\ GetGastosMensais(1))
             => MultasPorMes(emCurso[1].q)]_vars

\* the monthly report counts one fine, in the month it was paid, while a
\* pending fine is stored and the paid fine's infraction is of another year
C15_Witness ==
    /\ resp.op = "gastosMensais" /\ resp.status = 200
    /\ Len(multas) = 2
    /\ multas[1].statusPagamento = "paga" /\ multas[2].statusPagamento = "pendente"
    /\ AnoDe(multas[1].dataInfracao) # AnoDe(multas[1].dataPagamento)
    /\ resp.body.multas[MesDe(multas[1].dataPagamento)] = multas[1].valor
    /\ SomaSeq([i \in 1..MesesPorAno |-> resp.body.multas[i - 1]]) = multas[1].valor

---------------------------------------------------------------------------
(* The four event creations on a fleet whose only vehicle can be deleted *)

InitCriacao ==
    /\ veiculos = <<VeiculoSimples(1, <<"A", "1">>, 1)>>
    /\ manutencoes = <<>>
    /\ checklists = <<>>
    /\ abastecimentos = <<>>
    /\ multas = <<>>
    /\ nextId = 2
    /\ now = TicksPerDay
    /\ resp = RespInicial
    /\ excluidos = {}
    /\ emCurso = Livres

NextCriacao ==
    \/ \E b \in ReqPostManutencao : PostManutencaoBusca(1, b)
    \/ \E p \in Pedidos : PostManutencaoInsere(p)
    \/ \E p \in Pedidos : PostManutencaoGrava(p)
    \/ \E p \in Pedidos, vid \in IdsPedidos : ChecklistIniciarBusca(p, [veiculoId |-> vid])
    \/ \E p \in Pedidos : ChecklistIniciarInsere(p)
    \/ \E p \in Pedidos : ChecklistIniciarGrava(p)
    \/ \E b \in ReqPostAbastecimento : PostAbastecimentoBusca(1, b)
    \/ \E p \in Pedidos : PostAbastecimentoInsere(p)
    \/ \E p \in Pedidos : PostAbastecimentoGrava(p)
    \/ \E b \in ReqMulta : PostMultaBusca(1, b)
    \/ \E p \in Pedidos : PostMultaInsere(p)
    \/ \E id \in IdsPedidos : DeleteVeiculoApaga(2, id)
    \/ \E p \in Pedidos : DeleteVeiculoManutencoes(p)
    \/ \E p \in Pedidos : DeleteVeiculoChecklists(p)
    \/ \E p \in Pedidos : DeleteVeiculoAbastecimentos(p)

SpecCriacao == InitCriacao /\ [][NextCriacao]_vars

\* a well-formed vehicle id of no stored vehicle
SemVeiculo(vid) == vid # IdInvalido /\ ~Existe(veiculos, vid)

\* the answer to a creation that names no stored vehicle: not found, unless
\* the request is refused for its other fields; nothing is written and the
\* handler is over
RecusadaSemEscrita(p, outrosCamposOk) ==
    /\ resp'.status \in {400, 404}
    /\ outrosCamposOk => resp'.status = 404
    /\ emCurso'[p] = Livre
    /\ UNCHANGED <<veiculos, manutencoes, checklists, abastecimentos, multas>>

\* the event appended to a collection comes from a handler suspended at its
\* insert, which it reaches only after its lookup found the vehicle
InseridoComVeiculo(antes, depois, pc) ==
    Len(depois) > Len(antes) =>
        \E p \in Pedidos :
            /\ emCurso[p].pc = pc
            /\ emCurso[p].b.veiculoId = depois[Len(depois)].veiculoId
            /\ emCurso'[p].pc # pc

\* a handler goes on to its insert only when its lookup found the vehicle
SegueComVeiculo(p) ==
    (/\ emCurso[p] = Livre
     /\ emCurso'[p].pc \in {"inserirManutencao", "inserirChecklist",
                             "inserirAbastecimento", "inserirMulta"})
        => Existe(veiculos, emCurso'[p].b.veiculoId)

\* C16: creating a maintenance, checklist, fueling or fine event for a
\* well-formed vehicle id of no stored vehicle is answered 404 (400 when
\* another field of the request is refused first), inserts no event and
\* changes no vehicle; an event is inserted only by a handler whose lookup
\* found the vehicle stored.
C16_CreationNeedsVehicle ==
    [][/\ \A p \in Pedidos :
            /\ SegueComVeiculo(p)
            /\ \A b \in ReqPostManutencao :
                 SemVeiculo(b.veiculoId) /\ PostManutencaoBusca(p, b) =>
                    RecusadaSemEscrita(p, b.tipoManutencao # ""
                                          /\ b.dataRealizacao.k = "str"
                                          /\ b.quilometragem # Undef)
            /\ \A vid \in IdsPedidos :
                 SemVeiculo(vid) /\ ChecklistIniciarBusca(p, [veiculoId |-> vid]) =>
                    RecusadaSemEscrita(p, TRUE)
            /\ \A b \in ReqPostAbastecimento :
                 SemVeiculo(b.veiculoId) /\ PostAbastecimentoBusca(p, b) =>
                    RecusadaSemEscrita(p, CamposAbastecimentoOk(b))
            /\ \A b \in ReqMulta :
                 SemVeiculo(b.veiculoId) /\ PostMultaBusca(p, b) =>
                    RecusadaSemEscrita(p, b.camposOk /\ b.valor.k = "num"
                                          /\ b.valor.n # 0
                                          /\ b.statusPagamento # "")
       /\ InseridoComVeiculo(manutencoes, manutencoes', "inserirManutencao")
       /\ InseridoComVeiculo(checklists, checklists', "inserirChecklist")
       /\ InseridoComVeiculo(abastecimentos, abastecimentos', "inserirAbastecimento")
       /\ InseridoComVeiculo(multas, multas', "inserirMulta")]_vars

\* a fine creation answered 404 once the only vehicle, which had events,
\* has been deleted
C16_Witness ==
    /\ resp.op = "postMulta" /\ resp.status = 404
    /\ emCurso = Livres
    /\ veiculos = <<>>
    /\ multas = <<>>
    /\ Len(manutencoes) + Len(checklists) + Len(abastecimentos) = 0
    /\ \E e \in excluidos : e.eventos > 0

---------------------------------------------------------------------------
(* Vehicle creations and plate edits in flight together, while the clock *)
(* advances                                                              *)

\* the creation of plate A1 asks for a checklist every day
ReqPostPlaca ==
    {VeiculoBody(placa, TRUE, Num(1), Undef, Undef,
                 IF placa = <<"a", "-", "1">> THEN Num(1) ELSE Undef) :
        placa \in {<<"a", "-", "1">>, <<"b", "2">>, <<"-">>}}

ReqPutPlaca ==
    {EditBody(TRUE, placa, Undef, Undef, Undef, Undef) :
        placa \in {<<"a", "1">>, <<"b", "-", "2">>, <<"-">>}}
    \cup {EditBody(FALSE, <<>>, Num(1), Undef, Undef, Undef)}

InitPlacas ==
    /\ veiculos = <<VeiculoSimples(1, <<"A", "1">>, 1)>>
    /\ manutencoes = <<>>
    /\ checklists = <<>>
    /\ abastecimentos = <<>>
    /\ multas = <<>>
    /\ nextId = 2
    /\ now = 0
    /\ resp = RespInicial
    /\ excluidos = {}
    /\ emCurso = Livres

NextPlacas ==
    \/ \E p \in Pedidos, d \in ReqPostPlaca : PostVeiculoEntra(p, d)
    \/ \E p \in Pedidos : PostVeiculoBusca(p)
    \/ \E p \in Pedidos : PostVeiculoInsere(p)
    \/ \E p \in Pedidos, id \in IdsPedidos, d \in ReqPutPlaca : PutVeiculoBusca(p, id, d)
    \/ \E p \in Pedidos : PutVeiculoConfere(p)
    \/ \E p \in Pedidos : PutVeiculoGrava(p)
    \/ Tick

SpecPlacas == InitPlacas /\ [][NextPlacas]_vars

\* C17: after any sequence or interleaving of vehicle creations and vehicle
\* edits no two stored vehicles have the same normalized plate.
C17_UniquePlates ==
    \A i, j \in DOMAIN veiculos :
        veiculos[i].placa = veiculos[j].placa => i = j

---------------------------------------------------------------------------
(* Fueling requests for one vehicle in flight together *)

InitAbastecer ==
    /\ veiculos = <<VeiculoSimples(1, <<"A", "1">>, 0)>>
    /\ manutencoes = <<>>
    /\ checklists = <<>>
    /\ abastecimentos = <<>>
    /\ multas = <<>>
    /\ nextId = 2
    /\ now = 0
    /\ resp = RespInicial
    /\ excluidos = {}
    /\ emCurso = Livres

NextAbastecer ==
    \/ \E p \in Pedidos, b \in ReqPostAbastecimento : PostAbastecimentoBusca(p, b)
    \/ \E p \in Pedidos : PostAbastecimentoInsere(p)
    \/ \E p \in Pedidos : PostAbastecimentoGrava(p)

SpecAbastecer == InitAbastecer /\ [][NextAbastecer]_vars

\* C1: a fueling request whose reading is strictly below the
\* quilometragemAtual the vehicle holds when the handler looks it up is
\* answered 400 and changes nothing; one whose reading is >= that value, all
\* other input valid, goes on: its insert appends one fueling event with that
\* reading, and its update answers 201 and leaves the vehicle's
\* quilometragemAtual equal to that reading.
C1_FuelingOdometerRule ==
    [][/\ \A p \in Pedidos, b \in ReqPostAbastecimento :
            (PostAbastecimentoBusca(p, b) /\ TemLeitura(b)
                /\ Existe(veiculos, b.veiculoId)) =>
               LET v == FindOne(veiculos, b.veiculoId)
                   lido == b.quilometragemAtual.n
               IN /\ lido < KmDe(v) =>
                       /\ resp'.status = 400
                       /\ emCurso'[p] = Livre
                       /\ UNCHANGED store
                  /\ (lido >= KmDe(v) /\ CamposAbastecimentoOk(b)) =>
                       /\ emCurso'[p].pc = "inserirAbastecimento"
                       /\ emCurso'[p].b = b
       /\ \A p \in Pedidos :
            (emCurso[p].pc = "inserirAbastecimento" /\ PostAbastecimentoInsere(p)) =>
               /\ Len(abastecimentos') = Len(abastecimentos) + 1
               /\ SubSeq(abastecimentos', 1, Len(abastecimentos)) = abastecimentos
               /\ abastecimentos'[Len(abastecimentos')].veiculoId = emCurso[p].b.veiculoId
               /\ abastecimentos'[Len(abastecimentos')].quilometragemAtual
                     = emCurso[p].b.quilometragemAtual.n
               /\ emCurso'[p].pc = "gravarKm"
       /\ \A p \in Pedidos :
            (emCurso[p].pc = "gravarKm" /\ PostAbastecimentoGrava(p)) =>
               /\ resp'.status = 201
               /\ Existe(veiculos, emCurso[p].b.veiculoId) =>
                     FindOne(veiculos', emCurso[p].b.veiculoId).quilometragemAtual
                        = emCurso[p].b.quilometragemAtual.n]_vars

\* C1 witness: a fueling was accepted with a reading equal to the value that
\* was stored (the boundary of >=), and the vehicle now holds that reading.
C1_Witness ==
    /\ resp.op = "postAbastecimento" /\ resp.status = 201
    /\ emCurso = Livres
    /\ Len(abastecimentos) = 2
    /\ abastecimentos[1].veiculoId = abastecimentos[2].veiculoId
    /\ abastecimentos[1].quilometragemAtual = abastecimentos[2].quilometragemAtual
    /\ \E i \in DOMAIN veiculos :
         /\ veiculos[i]._id = abastecimentos[2].veiculoId
         /\ veiculos[i].quilometragemAtual = abastecimentos[2].quilometragemAtual

\* the largest reading among the stored fueling events of a vehicle
MaiorLeitura(id) ==
    MaiorDe({0} \cup {abastecimentos[i].quilometragemAtual :
                        i \in {j \in DOMAIN abastecimentos :
                                 abastecimentos[j].veiculoId = id}})

\* C18: with fueling requests for one vehicle in flight together, the stored
\* quilometragemAtual never decreases at any step, and once no request is
\* in flight it is the largest accepted reading.
C18_ConcurrentFueling ==
    /\ [][\A i \in DOMAIN veiculos : KmDe(veiculos'[i]) >= KmDe(veiculos[i])]_vars
    /\ [](emCurso = Livres =>
            \A i \in DOMAIN veiculos :
               KmDe(veiculos[i]) = MaiorLeitura(veiculos[i]._id))

---------------------------------------------------------------------------
(* Results registered for one pending checklist by requests in flight together *)

ChecklistPendenteDe(id, vid) ==
    [_id |-> id, veiculoId |-> vid, veiculoPlaca |-> <<"A", "1">>, dataIniciado |-> 0,
     status |-> "pendente", dataRealizacao |-> Null, quilometragem |-> Null,
     realizadoPor |-> NullTxt, observacoesGerais |-> NullTxt]

\* Ana sends notes with blanks around them, Rui notes of one blank
ReqResultados ==
    {ResultadoBody(Str(d), Num(km), por, IF por = "Ana" THEN " Ana " ELSE " ", TRUE) :
        d \in {0, TicksPerDay}, km \in {1, MaxKm}, por \in {"Ana", "Rui"}}
    \cup {ResultadoBody(Str(0), Undef, "Ana", "", TRUE)}

InitResultados ==
    /\ veiculos = <<VeiculoSimples(1, <<"A", "1">>, 0)>>
    /\ manutencoes = <<>>
    /\ checklists = <<ChecklistPendenteDe(2, 1)>>
    /\ abastecimentos = <<>>
    /\ multas = <<>>
    /\ nextId = 3
    /\ now = TicksPerDay
    /\ resp = RespInicial
    /\ excluidos = {}
    /\ emCurso = Livres

NextResultados ==
    \/ \E p \in Pedidos, id \in IdsPedidos, b \in ReqResultados :
          RegistrarResultadoBusca(p, id, b)
    \/ \E p \in Pedidos : RegistrarResultadoVeiculo(p)
    \/ \E p \in Pedidos : RegistrarResultadoConclui(p)
    \/ \E p \in Pedidos : RegistrarResultadoGrava(p)

SpecResultados == InitResultados /\ [][NextResultados]_vars

\* C19: with registrar-resultado requests for one pending checklist in
\* flight together only one of them completes it: a checklist that is
\* completed is not written again, and a request answered 200 leaves the
\* checklist with the completion fields it sent.
C19_SingleCompletion ==
    [][/\ \A i \in DOMAIN checklists :
            checklists[i].status = "concluido" => checklists'[i] = checklists[i]
       /\ \A p \in Pedidos :
            RegistrarResultadoGrava(p) =>
               LET c == FindOne(checklists', emCurso[p].id)
               IN /\ c.realizadoPor = emCurso[p].b.realizadoPor
                  /\ c.dataRealizacao = ParseNum(emCurso[p].b.dataRealizacao)
                  /\ c.quilometragem = ParseNum(emCurso[p].b.quilometragem)]_vars

---------------------------------------------------------------------------
(* The store failing under a suspended handler *)

\* the route of a suspended handler
OpDe(pc) ==
    IF pc \in {"inserirManutencao", "gravarManutencao"} THEN "postManutencao"
    ELSE IF pc \in {"inserirChecklist", "gravarChecklist"} THEN "checklistIniciar"
    ELSE "postAbastecimento"

\* the insert taken back when the update fails
FalhaDesfazendo(p) ==
    /\ emCurso[p] # Livre
    /\ resp' = Resposta(OpDe(emCurso[p].pc), 500)
    /\ manutencoes' = SelectSeq(manutencoes, LAMBDA e : e._id < nextId - 1)
    /\ checklists' = SelectSeq(checklists, LAMBDA e : e._id < nextId - 1)
    /\ abastecimentos' = SelectSeq(abastecimentos, LAMBDA e : e._id < nextId - 1)
    /\ Termina(p)
    /\ UNCHANGED <<veiculos, multas, nextId, now, excluidos>>

\* the awaited store call rejects: catch (error) { res.status(500) }
Falha(p) ==
    /\ emCurso[p] # Livre
    /\ resp' = Resposta(OpDe(emCurso[p].pc), 500)
    /\ Termina(p)
    /\ UNCHANGED <<veiculos, manutencoes, checklists, abastecimentos, multas,
                   nextId, now, excluidos>>

(* Event recording on a store that can fail *)

ReqManutencaoOleo ==
    {ManutencaoBody(vid, tipo, Str(0), Undef, km, Num(MaxKm), Undef) :
        vid \in {IdInvalido, 1, MaxIds + 1},
        tipo \in {"Freios", "troca de oleo"},
        km \in {Undef, Num(0), Num(MaxKm)}}

InitFalhas ==
    /\ veiculos = <<VeiculoDue(1, <<"A", "1">>, 1, Null, Null, Null)>>
    /\ manutencoes = <<>>
    /\ checklists = <<>>
    /\ abastecimentos = <<>>
    /\ multas = <<>>
    /\ nextId = 2
    /\ now = TicksPerDay
    /\ resp = RespInicial
    /\ excluidos = {}
    /\ emCurso = Livres

NextFalhas ==
    \/ \E p \in Pedidos, b \in ReqManutencaoOleo : PostManutencaoBusca(p, b)
    \/ \E p \in Pedidos : PostManutencaoInsere(p)
    \/ \E p \in Pedidos : PostManutencaoGrava(p)
    \/ \E p \in Pedidos, vid \in IdsPedidos :
          ChecklistIniciarBusca(p, [veiculoId |-> vid])
    \/ \E p \in Pedidos : ChecklistIniciarInsere(p)
    \/ \E p \in Pedidos : ChecklistIniciarGrava(p)
    \/ \E p \in Pedidos, b \in ReqPostAbastecimento : PostAbastecimentoBusca(p, b)
    \/ \E p \in Pedidos : PostAbastecimentoInsere(p)
    \/ \E p \in Pedidos : PostAbastecimentoGrava(p)
    \/ \E p \in Pedidos : Falha(p)

SpecFalhas == InitFalhas /\ [][NextFalhas]_vars

EntreAsEscritas(pc) == pc \in {"gravarManutencao", "gravarChecklist", "gravarKm"}

EventoGuardado(ms, cs, as, id) == Existe(ms, id) \/ Existe(cs, id) \/ Existe(as, id)

\* C20: recording a maintenance, checklist or fueling event is not atomic:
\* when the store fails after the event was inserted and before the vehicle
\* is updated, the request is answered 500, the inserted event stays stored
\* and the vehicle keeps the snapshot it had.
C20_InsertNotUndone ==
    [][\A p \in Pedidos :
         (Falha(p) /\ EntreAsEscritas(emCurso[p].pc)) =>
            /\ resp'.status = 500
            /\ EventoGuardado(manutencoes', checklists', abastecimentos',
                              emCurso[p].inserido)
            /\ manutencoes' = manutencoes
            /\ checklists' = checklists
            /\ abastecimentos' = abastecimentos
            /\ veiculos' = veiculos]_vars

\* an oil change at a higher reading is stored and was answered 500, while
\* the vehicle still has its old odometer and no last oil change
C20_Witness ==
    /\ resp.op = "postManutencao" /\ resp.status = 500
    /\ emCurso = Livres
    /\ Len(manutencoes) = 1
    /\ EhTipoOleo(manutencoes[1].tipoManutencao)
    /\ manutencoes[1].quilometragem > veiculos[1].quilometragemAtual
    /\ veiculos[1].manutencaoInfo.ultimaTrocaOleoKm = Null
    /\ veiculos[1].manutencaoInfo.ultimaTrocaOleoData = Null

---------------------------------------------------------------------------
(* Event creations in flight together with the deletion of their vehicle *)

InitCascata ==
    /\ veiculos = <<VeiculoSimples(1, <<"A", "1">>, 0)>>
    /\ manutencoes = <<>>
    /\ checklists = <<>>
    /\ abastecimentos = <<>>
    /\ multas = <<>>
    /\ nextId = 2
    /\ now = TicksPerDay
    /\ resp = RespInicial
    /\ excluidos = {}
    /\ emCurso = Livres

NextCascata ==
    \/ \E p \in Pedidos, b \in ReqManutencaoOleo : PostManutencaoBusca(p, b)
    \/ \E p \in Pedidos : PostManutencaoInsere(p)
    \/ \E p \in Pedidos : PostManutencaoGrava(p)
    \/ \E p \in Pedidos, vid \in IdsPedidos :
          ChecklistIniciarBusca(p, [veiculoId |-> vid])
    \/ \E p \in Pedidos : ChecklistIniciarInsere(p)
    \/ \E p \in Pedidos : ChecklistIniciarGrava(p)
    \/ \E p \in Pedidos, b \in ReqPostAbastecimento : PostAbastecimentoBusca(p, b)
    \/ \E p \in Pedidos : PostAbastecimentoInsere(p)
    \/ \E p \in Pedidos : PostAbastecimentoGrava(p)
    \/ \E p \in Pedidos, id \in IdsPedidos : DeleteVeiculoApaga(p, id)
    \/ \E p \in Pedidos : DeleteVeiculoManutencoes(p)
    \/ \E p \in Pedidos : DeleteVeiculoChecklists(p)
    \/ \E p \in Pedidos : DeleteVeiculoAbastecimentos(p)

SpecCascata == InitCascata /\ [][NextCascata]_vars

SemOrfaos(col) == \A i \in DOMAIN col : Existe(veiculos, col[i].veiculoId)

\* C21: when an event creation for a vehicle and the deletion of that
\* vehicle are in flight together, then once no request is in flight no
\* maintenance, checklist or fueling record names a vehicle that is gone.
C21_NoOrphanAfterDelete ==
    emCurso = Livres =>
        SemOrfaos(manutencoes) /\ SemOrfaos(checklists) /\ SemOrfaos(abastecimentos)

\* C7: no maintenance, checklist or fueling record references a vehicle that
\* DELETE /api/veiculos/:id answered 200 for, in any later state.
C7_CascadeDelete ==
    \A e \in excluidos :
        /\ FindPorVeiculo(manutencoes, e.id) = <<>>
        /\ FindPorVeiculo(checklists, e.id) = <<>>
        /\ FindPorVeiculo(abastecimentos, e.id) = <<>>

---------------------------------------------------------------------------
(* Maintenance recorded on a vehicle that has an oil and checklist snapshot *)

VeiculoComSnapshot(km, ultKm, ultData, proxKm, proxData) ==
    [VeiculoSimples(1, <<"A", "1">>, km) EXCEPT
        !.manutencaoInfo.ultimaTrocaOleoKm = ultKm,
        !.manutencaoInfo.ultimaTrocaOleoData = ultData,
        !.manutencaoInfo.proxTrocaOleoKm = proxKm,
        !.manutencaoInfo.proxTrocaOleoData = proxData,
        !.manutencaoInfo.frequenciaChecklistDias = 1,
        !.manutencaoInfo.dataProxChecklist = TicksPerDay,
        !.manutencaoInfo.ultimoChecklistData = 0]

\* the requests a second client sends while the first one is being served
ReqOleoEmParalelo ==
    {ManutencaoBody(vid, "ÓLEO", Str(TicksPerDay), Undef, Undef, Undef, Undef) :
        vid \in {IdInvalido, 1, MaxIds + 1}}
    \cup {ManutencaoBody(1, "ÓLEO", TextoSemData, Undef, Num(MaxKm), Undef, Undef)}

ReqOleo ==
    {ManutencaoBody(1, tipo, Str(TicksPerDay), Undef, Num(MaxKm), proxKm, proxData) :
        tipo \in {"Freios", "Ole", " ÓLEO "},
        proxKm \in {Undef, Vazio, JNull, Num(MaxKm)},
        proxData \in {Undef, Vazio, Str(MaisDias(TicksPerDay, 1))}}
    \cup {ManutencaoBody(1, tipo, Str(TicksPerDay), Undef, km, JNull, Vazio) :
            tipo \in {"Troca de Óleo", "OLEO e filtro"}, km \in {Num(0), Vazio}}
    \cup ReqOleoEmParalelo

InitOleo ==
    /\ \E ult \in {Null, 1}, proxKm \in {Null, 1}, proxData \in {Null, 0} :
          veiculos = <<VeiculoComSnapshot(1, ult, IF ult = Null THEN Null ELSE 0,
                                          proxKm, proxData)>>
    /\ manutencoes = <<>>
    /\ checklists = <<>>
    /\ abastecimentos = <<>>
    /\ multas = <<>>
    /\ nextId = MaxIds - 1
    /\ now = TicksPerDay
    /\ resp = RespInicial
    /\ excluidos = {}
    /\ emCurso = Livres

NextOleo ==
    \/ \E b \in ReqOleo : PostManutencaoBusca(1, b)
    \/ \E b \in ReqOleoEmParalelo : PostManutencaoBusca(2, b)
    \/ \E p \in Pedidos : PostManutencaoInsere(p)
    \/ \E p \in Pedidos : PostManutencaoGrava(p)

SpecOleo == InitOleo /\ [][NextOleo]_vars

\* the types of the requests that name oil, in any letter case
TiposComOleo == {"Troca de Óleo", "troca de oleo", "ÓLEO", " ÓLEO ", "OLEO e filtro"}

\* the next-due value a request field supplies: the value, null for an
\* empty one
Fornecido(campo) == IF campo.k \in {"num", "str"} /\ campo # Vazio THEN campo.n ELSE Null

\* C22: a recorded maintenance whose type contains 'oleo'/'óleo' in any
\* letter case sets ultimaTrocaOleoData to the event's date and
\* ultimaTrocaOleoKm to the event's odometer, and sets proxTrocaOleoKm and
\* proxTrocaOleoData to the next-due values the request supplies, null when
\* supplied empty.
C22_OilSnapshot ==
    [][\A p \in Pedidos :
         (emCurso[p].pc = "gravarManutencao" /\ PostManutencaoGrava(p)
          /\ emCurso[p].b.tipoManutencao \in TiposComOleo) =>
            LET mi == veiculos'[1].manutencaoInfo
                ev == FindOne(manutencoes, emCurso[p].inserido)
                b == emCurso[p].b
            IN /\ resp'.status = 201
               /\ mi.ultimaTrocaOleoData = ev.dataRealizacao
               /\ mi.ultimaTrocaOleoKm = ev.quilometragem
               /\ b.proxTrocaOleoKm # Undef =>
                     mi.proxTrocaOleoKm = Fornecido(b.proxTrocaOleoKm)
               /\ b.proxTrocaOleoData # Undef =>
                     mi.proxTrocaOleoData = Fornecido(b.proxTrocaOleoData)]_vars

OleoDe(v) ==
    <<v.manutencaoInfo.ultimaTrocaOleoData, v.manutencaoInfo.ultimaTrocaOleoKm,
      v.manutencaoInfo.proxTrocaOleoKm, v.manutencaoInfo.proxTrocaOleoData>>

ProximaTrocaDe(v) ==
    <<v.manutencaoInfo.proxTrocaOleoKm, v.manutencaoInfo.proxTrocaOleoData>>

ChecklistInfoDe(v) ==
    <<v.manutencaoInfo.frequenciaChecklistDias, v.manutencaoInfo.dataProxChecklist,
      v.manutencaoInfo.ultimoChecklistData>>

\* overdue by odometer or by date on the day of instant t
OleoVencido(v, t) ==
    \/ VencidoKmOleo(v)
    \/ /\ v.manutencaoInfo.proxTrocaOleoData # Null
       /\ v.manutencaoInfo.proxTrocaOleoData < InicioDoDia(t)

\* C23: a recorded maintenance of a non-oil type changes none of the four
\* oil fields of the vehicle; one of an oil type that supplies no next-due
\* field leaves proxTrocaOleoKm and proxTrocaOleoData as they were, so an
\* overdue vehicle stays overdue; no maintenance recording changes the
\* checklist fields.
C23_OilSnapshotFrame ==
    [][\A p \in Pedidos :
         /\ (\E b \in ReqOleo : PostManutencaoBusca(p, b)) => veiculos' = veiculos
         /\ (emCurso[p].pc = "inserirManutencao" /\ PostManutencaoInsere(p)) =>
               /\ veiculos' = veiculos
               /\ emCurso'[p] = Livre =>
                     /\ resp'.status = 201
                     /\ emCurso[p].b.tipoManutencao \notin TiposComOleo
         /\ (emCurso[p].pc = "gravarManutencao" /\ PostManutencaoGrava(p)) =>
               LET b == emCurso[p].b IN
               /\ ChecklistInfoDe(veiculos'[1]) = ChecklistInfoDe(veiculos[1])
               /\ b.tipoManutencao \notin TiposComOleo =>
                     OleoDe(veiculos'[1]) = OleoDe(veiculos[1])
               /\ (b.proxTrocaOleoKm = Undef /\ b.proxTrocaOleoData = Undef) =>
                     /\ ProximaTrocaDe(veiculos'[1]) = ProximaTrocaDe(veiculos[1])
                     /\ OleoVencido(veiculos[1], now) => OleoVencido(veiculos'[1], now)]_vars

\* an oil change without next-due fields was recorded on a vehicle overdue
\* by odometer and by date: the last oil change is the event's, the next-due
\* fields are the old ones
C23_Witness ==
    /\ resp.op = "postManutencao" /\ resp.status = 201
    /\ Len(manutencoes) = 1
    /\ manutencoes[1].tipoManutencao \in TiposComOleo
    /\ veiculos[1].manutencaoInfo.ultimaTrocaOleoData = manutencoes[1].dataRealizacao
    /\ veiculos[1].manutencaoInfo.ultimaTrocaOleoKm = MaxKm
    /\ veiculos[1].manutencaoInfo.proxTrocaOleoKm = 1
    /\ veiculos[1].manutencaoInfo.proxTrocaOleoData = 0
    /\ OleoVencido(veiculos[1], now)

---------------------------------------------------------------------------
(* Checklist starts on a vehicle with any checklist schedule, and the      *)
(* next-maintenance view after them                                        *)

\* frequencies a vehicle may hold: none, zero, negative, one day, four days
FrequenciasGuardadas == {Null, 0, 0 - 3, 1, 4}

VeiculoAgendado(freq, dataCheck) ==
    [VeiculoDue(1, <<"A", "1">>, 1, MaxKm, MaisDias(TicksPerDay, 1), dataCheck) EXCEPT
        !.manutencaoInfo.frequenciaChecklistDias = freq]

InitInicio ==
    /\ \E freq \in FrequenciasGuardadas,
          dataCheck \in {Null, TicksPerDay - 1, MaisDias(TicksPerDay, 1)} :
          veiculos = <<VeiculoAgendado(freq, dataCheck)>>
    /\ manutencoes = <<>>
    /\ checklists = <<>>
    /\ abastecimentos = <<>>
    /\ multas = <<>>
    /\ nextId = MaxIds - 1
    /\ now = TicksPerDay
    /\ resp = RespInicial
    /\ excluidos = {}
    /\ emCurso = Livres

NextInicio ==
    \/ \E p \in Pedidos, vid \in IdsPedidos : ChecklistIniciarBusca(p, [veiculoId |-> vid])
    \/ \E p \in Pedidos : ChecklistIniciarInsere(p)
    \/ \E p \in Pedidos : ChecklistIniciarGrava(p)
    \/ GetProximas
    \/ Tick

SpecInicio == InitInicio /\ [][NextInicio]_vars

FrequenciaPositiva(v) ==
    /\ v.manutencaoInfo.frequenciaChecklistDias # Null
    /\ v.manutencaoInfo.frequenciaChecklistDias > 0

\* C24: a recorded checklist start sets ultimoChecklistData to the start
\* instant (the dataIniciado of the checklist it inserted) and, exactly when
\* the vehicle has a positive frequenciaChecklistDias, sets dataProxChecklist
\* to the start instant plus that many days; otherwise dataProxChecklist
\* stays; the odometer and the oil fields do not change.
C24_ChecklistStart ==
    [][\A p \in Pedidos :
         /\ (\E vid \in IdsPedidos : ChecklistIniciarBusca(p, [veiculoId |-> vid]))
               => veiculos' = veiculos
         /\ (emCurso[p].pc = "inserirChecklist" /\ ChecklistIniciarInsere(p)) =>
               /\ veiculos' = veiculos
               /\ checklists'[Len(checklists')].status = "pendente"
         /\ (emCurso[p].pc = "gravarChecklist" /\ ChecklistIniciarGrava(p)) =>
               LET v == veiculos[1]
                   w == veiculos'[1]
                   inicio == FindOne(checklists, emCurso[p].inserido).dataIniciado
               IN /\ resp'.status = 201
                  /\ w.manutencaoInfo.ultimoChecklistData = inicio
                  /\ FrequenciaPositiva(v) =>
                        w.manutencaoInfo.dataProxChecklist =
                           inicio + v.manutencaoInfo.frequenciaChecklistDias * TicksPerDay
                  /\ ~FrequenciaPositiva(v) =>
                        w.manutencaoInfo.dataProxChecklist
                           = v.manutencaoInfo.dataProxChecklist
                  /\ w.quilometragemAtual = v.quilometragemAtual
                  /\ OleoDe(w) = OleoDe(v)
                  /\ w.manutencaoInfo.frequenciaChecklistDias
                        = v.manutencaoInfo.frequenciaChecklistDias]_vars

\* a start recorded after the clock moved, on a vehicle with a frequency of
\* four days whose next checklist was due yesterday
C24_Witness ==
    /\ resp.op = "checklistIniciar" /\ resp.status = 201
    /\ resp.em > TicksPerDay
    /\ veiculos[1].manutencaoInfo.frequenciaChecklistDias = 4
    /\ veiculos[1].manutencaoInfo.ultimoChecklistData = resp.em
    /\ veiculos[1].manutencaoInfo.dataProxChecklist = resp.em + 4 * TicksPerDay
    /\ Len(checklists) = 1

\* C25: once a checklist start has been recorded for a vehicle, the next
\* answer of the next-maintenance view holds no checklist entry of that
\* vehicle that is due or overdue, whatever its dataProxChecklist was and
\* whether or not it has a frequency.
C25_DropsOutAfterStart ==
    [][(GetProximas /\ resp.op = "checklistIniciar" /\ resp.status = 201
        /\ resp'.status = 200) =>
          \A i \in ItensChecklistDe(resp'.body, 1) :
             resp'.body[i].statusAlerta = "OK"]_vars

---------------------------------------------------------------------------
(* Completions of pending checklists with readings below, at and above    *)
(* the odometer, next to fuelings with the same readings                  *)

ReqConclusao ==
    {ResultadoBody(Str(TicksPerDay), km, "Ana", "", TRUE) :
        km \in {Num(0), Num(1), Num(MaxKm), Vazio}}
    \cup {ResultadoBody(Str(0), Num(MaxKm), "Ana", "", TRUE),
          ResultadoBody(Vazio, Num(1), "Ana", "", TRUE),
          ResultadoBody(Str(0), Undef, "Ana", "", TRUE),
          ResultadoBody(Str(0), Num(1), "", "", TRUE),
          ResultadoBody(Str(0), Num(1), "Ana", "", FALSE),
          ResultadoBody(TextoSemData, Num(MaxKm), " Ana ", " Ana ", TRUE)}

ReqAbastecerKm ==
    {AbastecimentoBody(1, Str(0), Num(k), Num(2), Num(3), Undef) : k \in 0..MaxKm}

InitConclusao ==
    /\ \E freq \in FrequenciasGuardadas :
          veiculos = <<[VeiculoAgendado(freq, TicksPerDay - 1) EXCEPT
                           !.manutencaoInfo.ultimoChecklistData = 0]>>
    /\ manutencoes = <<>>
    /\ checklists = <<ChecklistPendenteDe(2, 1), ChecklistPendenteDe(3, 1)>>
    /\ abastecimentos = <<>>
    /\ multas = <<>>
    /\ nextId = MaxIds
    /\ now = TicksPerDay
    /\ resp = RespInicial
    /\ excluidos = {}
    /\ emCurso = Livres

NextConclusao ==
    \/ \E id \in IdsPedidos, b \in ReqConclusao : RegistrarResultadoBusca(1, id, b)
    \/ \E p \in Pedidos : RegistrarResultadoVeiculo(p)
    \/ \E p \in Pedidos : RegistrarResultadoConclui(p)
    \/ \E p \in Pedidos : RegistrarResultadoGrava(p)
    \/ \E b \in ReqAbastecerKm : PostAbastecimentoBusca(2, b)
    \/ \E p \in Pedidos : PostAbastecimentoInsere(p)
    \/ \E p \in Pedidos : PostAbastecimentoGrava(p)

SpecConclusao == InitConclusao /\ [][NextConclusao]_vars

ResultadoCompleto(b) ==
    /\ Truthy(b.dataRealizacao)
    /\ b.quilometragem # Undef
    /\ b.realizadoPor # ""
    /\ b.itensArray

\* C26: completing a pending checklist sets dataProxChecklist to the
\* completion date plus frequenciaChecklistDias when the frequency is
\* positive, and sets quilometragemAtual to the checklist's reading exactly
\* when the reading is strictly greater than the stored value the handler
\* read; a complete request with a lower or equal reading is answered 200
\* and leaves the odometer, while a fueling with a lower reading is
\* answered 400.
C26_CompletionOdometer ==
    [][\A p \in Pedidos :
         /\ \A id \in IdsPedidos, b \in ReqConclusao :
              (ExistePendente(id) /\ ResultadoCompleto(b)
                  /\ RegistrarResultadoBusca(p, id, b)) =>
                 emCurso'[p].pc = "buscarVeiculo" /\ emCurso'[p].b = b
         /\ (emCurso[p].pc = "gravarResultado" /\ RegistrarResultadoGrava(p)) =>
              LET v == veiculos[1]
                  w == veiculos'[1]
                  b == emCurso[p].b
                  lido == emCurso[p].lido
                  r == ParseNum(b.quilometragem)
                  maior == r # NaN /\ r > lido.quilometragemAtual
              IN /\ resp'.status = 200
                 /\ (FrequenciaPositiva(v) /\ ParseNum(b.dataRealizacao) # NaN) =>
                       w.manutencaoInfo.dataProxChecklist =
                          ParseNum(b.dataRealizacao)
                             + v.manutencaoInfo.frequenciaChecklistDias * TicksPerDay
                 /\ maior => w.quilometragemAtual = r
                 /\ ~maior => w.quilometragemAtual = v.quilometragemAtual
         /\ \A b \in ReqAbastecerKm :
              (PostAbastecimentoBusca(p, b)
               /\ ParseNum(b.quilometragemAtual) < veiculos[1].quilometragemAtual) =>
                 resp'.status = 400 /\ emCurso'[p] = Livre /\ veiculos' = veiculos]_vars

\* a completion with a reading below the odometer was accepted after one
\* with a reading above it, on a vehicle checked every four days
C26_Witness ==
    /\ resp.op = "registrarResultado" /\ resp.status = 200
    /\ veiculos[1].quilometragemAtual = MaxKm
    /\ checklists[1].status = "concluido" /\ checklists[1].quilometragem = MaxKm
    /\ checklists[2].status = "concluido" /\ checklists[2].quilometragem = 0
    /\ abastecimentos = <<>>
    /\ veiculos[1].manutencaoInfo.frequenciaChecklistDias = 4
    /\ veiculos[1].manutencaoInfo.ultimoChecklistData = TicksPerDay
    /\ veiculos[1].manutencaoInfo.dataProxChecklist = TicksPerDay + 4 * TicksPerDay
    /\ checklists[2].dataRealizacao = TicksPerDay

---------------------------------------------------------------------------
(* Fueling requests that are refused                                      *)

ReqRecusa ==
    {AbastecimentoBody(vid, Str(d), km, Num(2), Num(3), Undef) :
        vid \in {IdInvalido, 1, 2},
        d \in {0, TicksPerDay},
        km \in {Num(0), Num(1), Num(MaxKm), Undef}}
    \cup {AbastecimentoBody(vid, Undef, Num(MaxKm), Num(2), Num(3), Undef) :
            vid \in {1, 2}}
    \cup {AbastecimentoBody(vid, Str(0), Num(MaxKm), l, Num(3), Undef) :
            vid \in {1, 2}, l \in {Num(0), Num(0 - 3), Vazio}}
    \cup {AbastecimentoBody(vid, Str(0), Num(MaxKm), Num(2), v, Undef) :
            vid \in {1, 2}, v \in {Num(0 - 3), Undef}}
    \cup {AbastecimentoBody(vid, Str(0), Num(MaxKm), Num(2), Num(3), Num(0 - 3)) :
            vid \in {1, 2}}

InitRecusa ==
    /\ \E freq \in {Null, 4} :
          veiculos = <<VeiculoAgendado(freq, TicksPerDay - 1)>>
    /\ manutencoes = <<>>
    /\ checklists = <<>>
    /\ abastecimentos = <<>>
    /\ multas = <<>>
    /\ nextId = MaxIds - 1
    /\ now = 0
    /\ resp = RespInicial
    /\ excluidos = {}
    /\ emCurso = Livres

\* the requests a second client sends while the first one is being served
ReqRecusaEmParalelo ==
    {AbastecimentoBody(1, Str(0), km, Num(2), Num(3), Undef) : km \in {Num(1), Num(MaxKm)}}

NextRecusa ==
    \/ \E b \in ReqRecusa : PostAbastecimentoBusca(1, b)
    \/ \E b \in ReqRecusaEmParalelo : PostAbastecimentoBusca(2, b)
    \/ \E p \in Pedidos : PostAbastecimentoInsere(p)
    \/ \E p \in Pedidos : PostAbastecimentoGrava(p)
    \/ \E id \in {1, 2} : DeleteVeiculoApaga(2, id)
    \/ \E p \in Pedidos : DeleteVeiculoManutencoes(p)
    \/ \E p \in Pedidos : DeleteVeiculoChecklists(p)
    \/ \E p \in Pedidos : DeleteVeiculoAbastecimentos(p)
    \/ Tick

SpecRecusa == InitRecusa /\ [][NextRecusa]_vars

\* C27: every refused fueling request leaves the store as it was: no
\* fueling event is inserted and no vehicle changes; a request with a
\* missing or malformed field, an invalid vehicle id or a non-positive
\* amount is answered 400 whatever the store holds, an unknown vehicle is
\* answered 404 and a reading below the stored odometer 400; a request is
\* refused before its first write or not at all.
C27_RefusedFuelingWritesNothing ==
    [][\A p \in Pedidos :
         /\ \A b \in ReqRecusa :
              PostAbastecimentoBusca(p, b) =>
                 /\ abastecimentos' = abastecimentos
                 /\ veiculos' = veiculos
                 /\ store' = store
                 /\ emCurso'[p] = Livre => resp'.status \in {400, 404}
                 /\ emCurso'[p] # Livre =>
                       emCurso'[p].pc = "inserirAbastecimento" /\ resp' = resp
                 /\ AbastecimentoInvalido(b) => resp'.status = 400 /\ emCurso'[p] = Livre
                 /\ (~AbastecimentoInvalido(b) /\ ~Existe(veiculos, b.veiculoId)) =>
                       resp'.status = 404 /\ emCurso'[p] = Livre
                 /\ (~AbastecimentoInvalido(b) /\ Existe(veiculos, b.veiculoId)
                     /\ ParseNum(b.quilometragemAtual)
                           < FindOne(veiculos, b.veiculoId).quilometragemAtual) =>
                       resp'.status = 400 /\ emCurso'[p] = Livre
         /\ (emCurso[p].pc = "inserirAbastecimento" /\ PostAbastecimentoInsere(p)) =>
               emCurso'[p].pc = "gravarKm"
         /\ (emCurso[p].pc = "gravarKm" /\ PostAbastecimentoGrava(p)) =>
               resp'.status = 201]_vars

\* a fueling was stored and raised the odometer, and the request after it
\* was refused
C27_Witness ==
    /\ resp.op = "postAbastecimento" /\ resp.status = 400
    /\ Len(abastecimentos) = 1
    /\ abastecimentos[1].quilometragemAtual = MaxKm
    /\ Len(veiculos) = 1
    /\ veiculos[1].quilometragemAtual = MaxKm
    /\ veiculos[1].manutencaoInfo.frequenciaChecklistDias = 4
    /\ resp.em > abastecimentos[1].data

---------------------------------------------------------------------------
(* Events created before and after a vehicle's plate is edited            *)

ReqEditaPlaca ==
    {EditBody(TRUE, placa, Undef, Undef, Undef, Undef) :
        placa \in {<<"b", "-", "2">>, <<"a", "2">>, <<"-">>}}
    \cup {EditBody(FALSE, <<>>, Num(MaxKm), Undef, Undef, Num(1))}

InitEventos ==
    /\ veiculos = <<VeiculoSimples(1, <<"A", "1">>, 1)>>
    /\ manutencoes = <<>>
    /\ checklists = <<>>
    /\ abastecimentos = <<>>
    /\ multas = <<>>
    /\ nextId = MaxIds - 1
    /\ now = 0
    /\ resp = RespInicial
    /\ excluidos = {}
    /\ emCurso = Livres

ManutencaoDeFreios == ManutencaoBody(1, "Freios", Str(0), Undef, Num(1), Undef, Undef)

AbastecimentoCheio == AbastecimentoBody(1, Str(0), Num(MaxKm), Num(2), Num(3), Undef)

MultaPendente == MultaBody(1, TRUE, Num(1), "pendente", Undef)

NextEventos ==
    \/ \E id \in {1, 2}, d \in ReqEditaPlaca : PutVeiculoBusca(2, id, d)
    \/ \E p \in Pedidos : PutVeiculoConfere(p)
    \/ \E p \in Pedidos : PutVeiculoGrava(p)
    \/ PostManutencaoBusca(1, ManutencaoDeFreios)
    \/ \E p \in Pedidos : PostManutencaoInsere(p)
    \/ ChecklistIniciarBusca(1, [veiculoId |-> 1])
    \/ \E p \in Pedidos : ChecklistIniciarInsere(p)
    \/ \E p \in Pedidos : ChecklistIniciarGrava(p)
    \/ PostAbastecimentoBusca(1, AbastecimentoCheio)
    \/ \E p \in Pedidos : PostAbastecimentoInsere(p)
    \/ \E p \in Pedidos : PostAbastecimentoGrava(p)
    \/ PostMultaBusca(1, MultaPendente)
    \/ \E p \in Pedidos : PostMultaInsere(p)

SpecEventos == InitEventos /\ [][NextEventos]_vars

\* the events a collection held are still there, unchanged, and an event
\* added to it comes from a handler suspended at its insert and carries the
\* plate of the vehicle document that handler read
GuardaPlaca(antes, depois, pc) ==
    /\ Len(depois) >= Len(antes)
    /\ \A i \in DOMAIN antes : depois[i] = antes[i]
    /\ \A i \in DOMAIN depois \ DOMAIN antes :
          \E p \in Pedidos :
             /\ emCurso[p].pc = pc
             /\ emCurso'[p].pc # pc
             /\ depois[i].veiculoId = emCurso[p].lido._id
             /\ depois[i].veiculoPlaca = emCurso[p].lido.placa

\* C28: an event stores the plate its vehicle had when the handler that
\* created it read the vehicle, and an edit of a vehicle, a change of plate
\* included, modifies no maintenance, checklist, fueling or fine record.
C28_PlateOnEventFrozen ==
    [][/\ GuardaPlaca(manutencoes, manutencoes', "inserirManutencao")
       /\ GuardaPlaca(checklists, checklists', "inserirChecklist")
       /\ GuardaPlaca(abastecimentos, abastecimentos', "inserirAbastecimento")
       /\ GuardaPlaca(multas, multas', "inserirMulta")
       /\ \A p \in Pedidos :
             \/ \E id \in {1, 2}, d \in ReqEditaPlaca : PutVeiculoBusca(p, id, d)
             \/ emCurso[p].pc = "conferirPlaca" /\ PutVeiculoConfere(p)
             \/ emCurso[p].pc = "gravarVeiculo" /\ PutVeiculoGrava(p)
             => <<manutencoes, checklists, abastecimentos, multas>>'
                   = <<manutencoes, checklists, abastecimentos, multas>>]_vars

\* the plate was changed between the creation of two events and changed
\* again after them: each event shows the plate of its day
C28_Witness ==
    /\ resp.op = "putVeiculo" /\ resp.status = 200
    /\ veiculos[1].placa = <<"A", "2">>
    /\ Len(multas) = 1 /\ multas[1].veiculoPlaca = <<"A", "1">>
    /\ Len(abastecimentos) = 1 /\ abastecimentos[1].veiculoPlaca = <<"B", "2">>

---------------------------------------------------------------------------
(* The dashboard counters next to the next-maintenance list               *)

StatusVencido(status) == status \in {"VENCIDO_DATA_KM", "VENCIDO_KM", "VENCIDO_DATA"}

\* the vehicles with an overdue entry in a next-maintenance answer
VencidosNaLista(body) ==
    {body[i].veiculoId : i \in {j \in DOMAIN body : StatusVencido(body[j].statusAlerta)}}

\* the vehicles the dashboard counts in alertasAtivos
VencidosNoDashboard(t) ==
    {veiculos[i]._id :
        i \in {j \in DOMAIN veiculos :
                 /\ ParaAlerta(veiculos[j])
                 /\ FlagsDashboard(veiculos[j], InicioHoje(t)).alertaVencido}}

\* C29: on every stored state the next-maintenance list is answered and a
\* vehicle is counted in alertasAtivos of the dashboard iff the list holds
\* an entry of that vehicle whose status starts with VENCIDO, so
\* alertasAtivos is the number of vehicles with an overdue entry.
C29_DashboardMatchesList ==
    [][GetProximas =>
          /\ resp'.status = 200
          /\ VencidosNoDashboard(now) = VencidosNaLista(resp'.body)
          /\ DashboardStats(Len(veiculos), InicioHoje(now)).alertasAtivos
                = Cardinality(VencidosNaLista(resp'.body))]_vars

---------------------------------------------------------------------------
(* The monthly chart next to the detailed report of the same year         *)

UltimoInstante(ano) == InicioDoAno(ano + 1) - 1

ManutencoesDaVirada ==
    {[_id |-> 0, veiculoId |-> v, veiculoPlaca |-> PlacaDe(v),
      tipoManutencao |-> "Freios", dataRealizacao |-> d, custo |-> c,
      quilometragem |-> Null] :
        v \in {1, 2}, d \in {UltimoInstante(0), InicioDoAno(1)}, c \in {0 - 3, 2}}

AbastecimentosDoChart ==
    {[_id |-> 0, veiculoId |-> 1, veiculoPlaca |-> PlacaDe(1),
      data |-> d, quilometragemAtual |-> 1, litros |-> 1,
      valorPorLitro |-> 3, custoTotal |-> c] :
        d \in {SegundoDia(0, 1), SegundoDia(0, MesesPorAno)}, c \in {3, Null}}

MultasDoChart ==
    {[_id |-> 0, veiculoId |-> v, veiculoPlaca |-> PlacaDe(v),
      dataInfracao |-> SegundoDia(0, 1), valor |-> 1, statusPagamento |-> "paga",
      dataPagamento |-> dp] :
        v \in {1, 2}, dp \in {SegundoDia(0, MesesPorAno), SegundoDia(1, 1)}}
    \cup {[_id |-> 0, veiculoId |-> v, veiculoPlaca |-> PlacaDe(v),
           dataInfracao |-> SegundoDia(0, 1), valor |-> 1,
           statusPagamento |-> "pendente", dataPagamento |-> Null] : v \in {1, 2}}

InitChart ==
    /\ veiculos = <<VeiculoSimples(1, PlacaDe(1), 1), VeiculoSimples(2, PlacaDe(2), 1)>>
    /\ checklists = <<>>
    /\ \E nm \in 0..2 : \E m \in [1..nm -> ManutencoesDaVirada] :
          manutencoes = ComIds(m, 3)
    /\ \E na \in 0..1 : \E a \in [1..na -> AbastecimentosDoChart] :
          abastecimentos = ComIds(a, 5)
    /\ \E nf \in 0..1 : \E f \in [1..nf -> MultasDoChart] : multas = ComIds(f, 6)
    /\ nextId = 7
    /\ now = InicioDoAno(1)
    /\ resp = RespInicial
    /\ excluidos = {}
    /\ emCurso = Livres

QueriesChart ==
    [todos : {TRUE}, veiculoId : {0}, ano : {Null, 0, 1}]
    \cup [todos : {FALSE}, veiculoId : {IdInvalido, 1, 2}, ano : {0}]

\* the detailed report asked for 1 January through 31 December of the year
\* of q, with the vehicle filter of q
LedgerDoAno(q) ==
    [todos |-> q.todos, veiculoId |-> q.veiculoId,
     dataInicio |-> PrimeiroDiaDoAno(AnoAtual(q)),
     dataFim |-> UltimoDiaDoAno(AnoAtual(q)),
     tipoGasto |-> "todos"]

NextChart ==
    \/ \E q \in QueriesChart : GetGastosMensaisEntra(1, q)
    \/ GetGastosMensaisManutencoes(1)
    \/ GetGastosMensaisAbastecimentos(1)
    \/ GetGastosMensais(1)
    \/ \E q \in QueriesChart : GetGastosDetalhados(1, LedgerDoAno(q))
    \/ GetGastosBusca(1)

SpecChart == InitChart /\ [][NextChart]_vars

\* every stored expense as (category, date, amount, vehicle); a fine is an
\* expense while it is paid, on its payment date
Lancamentos ==
    [i \in DOMAIN manutencoes |->
        [cat |-> "manutencao", data |-> manutencoes[i].dataRealizacao,
         valor |-> manutencoes[i].custo, veiculoId |-> manutencoes[i].veiculoId]]
    \o [i \in DOMAIN abastecimentos |->
        [cat |-> "combustivel", data |-> abastecimentos[i].data,
         valor |-> abastecimentos[i].custoTotal,
         veiculoId |-> abastecimentos[i].veiculoId]]
    \o [i \in DOMAIN PagasDe([todos |-> TRUE]) |->
        [cat |-> "multas", data |-> PagasDe([todos |-> TRUE])[i].dataPagamento,
         valor |-> PagasDe([todos |-> TRUE])[i].valor,
         veiculoId |-> PagasDe([todos |-> TRUE])[i].veiculoId]]

\* the sum of the positive amounts of a category dated in a month of a year
SomaDoMes(q, cat, ano, mes) ==
    SomaSeq([i \in DOMAIN Lancamentos |->
        LET l == Lancamentos[i]
        IN IF /\ l.cat = cat
              /\ q.todos \/ l.veiculoId = q.veiculoId
              /\ l.valor # Null /\ l.valor > 0
              /\ l.data # Null /\ AnoDe(l.data) = ano /\ MesDe(l.data) = mes
           THEN l.valor ELSE 0])

\* sumario.totalGastos of the detailed report of query q over the stored
\* state as it is
TotalDoLedger(q) ==
    LET f == GetDateQuery(q.dataInicio, q.dataFim)
    IN TotalDe(GastosManutencao(q, f) \o GastosCombustivel(q, f) \o GastosMulta(q, f))

SomaDosBaldes(dados) == SomaSeq([i \in 1..MesesPorAno |-> dados[i - 1]])

\* C30: the monthly chart, answered over a store that is not written
\* meanwhile, has one bucket per month of the year for each of maintenance,
\* fuel and paid fines; a bucket is the sum of the positive amounts dated in
\* that month of the chosen year; and the buckets of all categories add up
\* to sumario.totalGastos of the detailed report asked for 1 January
\* through 31 December of that year with the same vehicle filter.
C30_MonthlyMatchesLedger ==
    [][(emCurso[1].pc = "mensalMultas" /\ GetGastosMensais(1)) =>
            LET b == resp'.body
                q == emCurso[1].q
            IN /\ \A cat \in {"manutencao", "combustivel", "multas"} :
                    /\ DOMAIN b[cat] = 0..(MesesPorAno - 1)
                    /\ \A mes \in 0..(MesesPorAno - 1) :
                          b[cat][mes] = SomaDoMes(q, cat, AnoAtual(q), mes)
               /\ SomaDosBaldes(b.manutencao) + SomaDosBaldes(b.combustivel)
                     + SomaDosBaldes(b.multas)
                  = TotalDoLedger(LedgerDoAno(q))]_vars

\* the chart of year 0 with a maintenance on the last instant of the year in
\* its last bucket, one on the first instant of the next year left out, and
\* a fueling in the first bucket
C30_Witness ==
    /\ resp.op = "gastosMensais" /\ resp.status = 200
    /\ Len(manutencoes) = 2
    /\ manutencoes[1].dataRealizacao = UltimoInstante(0) /\ manutencoes[1].custo = 2
    /\ manutencoes[2].dataRealizacao = InicioDoAno(1) /\ manutencoes[2].custo = 2
    /\ resp.body.manutencao[MesesPorAno - 1] = 2
    /\ resp.body.manutencao[0] = 0
    /\ resp.body.combustivel[0] = 3
    /\ resp.body.multas[MesesPorAno - 1] = 1

=============================================================================
